---------------------------- MODULE Spec2Model ----------------------------
(***************************************************************************)
(* Verification model of the Open-Lab-Automation front end                 *)
(* (src/frontend/main.py): the project document, the instrument document   *)
(* editor, the sweep (.eff) editor, the scope time parser, the instrument  *)
(* library loader and the variable-name extraction.                        *)
(*                                                                         *)
(* The module holds one state machine per component.  Every specification  *)
(* drives the variables of its own component and leaves the others at      *)
(* their idle values.                                                      *)
(***************************************************************************)
EXTENDS Integers, Sequences, FiniteSets, TLC

VARIABLES
    \* ---- MainWindow (project document) ----
    current_project_data,   \* MainWindow.current_project_data (NoProject = None)
    current_project_dir,    \* MainWindow.current_project_dir (NoDir = None)
    dir_json,               \* the *.json files of the project directory
    dir_files,              \* the .eff/.was/.inst files of the project directory
    next_id,                \* source of fresh project ids (uuid4)
    proj_steps,             \* number of handlers of the main window run so far
    last_op,                \* what the last handler did (for the reports)
    last_project_path,      \* QSettings 'last_project_path': the sidecar in use
    \* ---- EffFileDialog (sweep editor) ----
    eff_data,               \* EffFileDialog.data, the .eff document
    eff_form,               \* the widgets of the two sweep groups
    eff_edits,              \* number of edits the user has made so far
    eff_text,               \* the text of data_edit: json.dumps(data) or malformed
    eff_combos,             \* the sweep and measured variable combo boxes
    eff_disk,               \* what the .eff file holds
    eff_op,                 \* what the last handler did
    \* ---- InstFileDialog (instrument editor) ----
    inst_data,              \* InstFileDialog.inst_data['instruments']
    inst_widget,            \* the items of channels_widget: text and data of each
    inst_form,              \* the widgets of the add-instrument form
    inst_selected,          \* instruments_list_widget.currentRow()
    inst_disk,              \* the instruments written in the .inst file
    inst_steps,             \* number of user actions so far
    inst_op,                \* what the last handler did
    \* ---- WasFileDialog (scope settings editor) ----
    was_data,               \* WasFileDialog.data, the .was document
    was_form,               \* the texts of the time/div and volt/div fields
    was_disk,               \* what the .was file holds
    was_steps,              \* number of user actions so far
    was_op,                 \* what the last handler did
    \* ---- Translator ----
    lang_files,             \* the <lang>.json files of Translator.lang_dir
    translations,           \* Translator.translations
    current_lang,           \* Translator.current_lang
    tr_op,                  \* the last call of the translator and its result
    \* ---- SettingsDialog ----
    qsettings,              \* the QSettings store ('LabAutomation', 'App')
    style_sheet,            \* the style sheet of the main window
    naming_settings,        \* MainWindow.naming_settings
    lang_combo,             \* SettingsDialog.lang_combo: the current text
    dark_theme_switch,      \* SettingsDialog.dark_theme_switch is checked
    adv_naming_checkbox,    \* SettingsDialog.adv_naming_checkbox is checked
    naming_toggles,         \* inst_toggle, eff_toggle, was_toggle: checked, enabled
    settings_op,            \* what the last handler of the dialog did
    \* ---- pure functions under test ----
    fn_in,                  \* the argument handed to the function
    fn_out                  \* its result (Pending before the call)

projVars ==
    <<current_project_dir, current_project_data, dir_json, dir_files, next_id, proj_steps,
      last_op, last_project_path>>
effVars == <<eff_data, eff_form, eff_edits, eff_text, eff_combos, eff_disk, eff_op>>
instVars ==
    <<inst_data, inst_widget, inst_form, inst_selected, inst_disk,
      inst_steps, inst_op>>
wasVars == <<was_data, was_form, was_disk, was_steps, was_op>>
trVars == <<lang_files, translations, current_lang, tr_op>>
setVars ==
    <<qsettings, style_sheet, naming_settings, lang_combo, dark_theme_switch,
      adv_naming_checkbox, naming_toggles, settings_op>>
dlgVars == <<trVars, setVars>>
guiVars == <<projVars, effVars, instVars, wasVars, dlgVars>>
fnVars == <<fn_in, fn_out>>

vars == <<guiVars, fnVars>>

(***************************************************************************)
(* Bounds of the model                                                     *)
(***************************************************************************)
MaxFiles == 2        \* longest eff_files / was_files list explored
MaxProjects == 2     \* number of projects created in one run
MaxProjSteps == 5    \* handlers of the main window run in one run
MaxTextLen == 3      \* longest free text typed into a line edit
MaxDocInst == 2      \* instances of an instrument document handed to a function
MaxDocChannels == 2  \* channels of such a document, over all its instances

(***************************************************************************)
(* Generic helpers                                                         *)
(***************************************************************************)
Range(s) == {s[i] : i \in 1..Len(s)}

NoDup(s) == \A i, j \in 1..Len(s) : i # j => s[i] # s[j]

Pending == [kind |-> "pending"]
Idle == [kind |-> "idle"]

\* The variables of the components a specification does not drive.
ProjIdle ==
    /\ current_project_dir = "idle"
    /\ current_project_data = Idle
    /\ dir_json = Idle
    /\ dir_files = Idle
    /\ next_id = 0
    /\ proj_steps = 0
    /\ last_op = Idle
    /\ last_project_path = Idle

EffIdle ==
    /\ eff_data = Idle
    /\ eff_form = Idle
    /\ eff_edits = 0
    /\ eff_text = "idle"
    /\ eff_combos = Idle
    /\ eff_disk = Idle
    /\ eff_op = Idle

InstIdle ==
    /\ inst_data = Idle
    /\ inst_widget = Idle
    /\ inst_form = Idle
    /\ inst_selected = -1
    /\ inst_disk = Idle
    /\ inst_steps = 0
    /\ inst_op = Idle

WasIdle ==
    /\ was_data = Idle
    /\ was_form = Idle
    /\ was_disk = Idle
    /\ was_steps = 0
    /\ was_op = Idle

TrIdle ==
    /\ lang_files = Idle
    /\ translations = Idle
    /\ current_lang = Idle
    /\ tr_op = Idle

SetIdle ==
    /\ qsettings = Idle
    /\ style_sheet = Idle
    /\ naming_settings = Idle
    /\ lang_combo = Idle
    /\ dark_theme_switch = Idle
    /\ adv_naming_checkbox = Idle
    /\ naming_toggles = Idle
    /\ settings_op = Idle

DlgIdle == TrIdle /\ SetIdle

GuiIdle == ProjIdle /\ EffIdle /\ InstIdle /\ WasIdle /\ DlgIdle

FnIdle == fn_in = Idle /\ fn_out = Idle

(***************************************************************************)
(* Text (str) and numbers (float)                                          *)
(*                                                                         *)
(* A str is a sequence of characters.  A float is an IEEE-754 double, kept *)
(* as the shortest decimal that rounds to it (the digits of its repr): a   *)
(* sign, the decimal digits without leading or trailing zeros and the      *)
(* power of ten of the last digit; zero has no digits.  inf and nan are    *)
(* floats of their own class.  NoneVal is Python's None.                   *)
(***************************************************************************)
NoneVal == [kind |-> "None"]

Finite(neg, digits, e) ==
    [kind |-> "float", cls |-> "num", neg |-> neg, digits |-> digits, e |-> e]

Inf(neg) == [kind |-> "float", cls |-> "inf", neg |-> neg, digits |-> <<>>, e |-> 0]

NaN == [kind |-> "float", cls |-> "nan", neg |-> FALSE, digits |-> <<>>, e |-> 0]

IsZero(x) == x.cls = "num" /\ x.digits = <<>>

\* x > 0
IsPositive(x) == ~x.neg /\ x.cls # "nan" /\ ~IsZero(x)

\* The decimal digits of a natural number, none for zero
RECURSIVE NatDigits(_)
NatDigits(n) == IF n = 0 THEN <<>> ELSE Append(NatDigits(n \div 10), n % 10)

\* digits * 10^e without leading and trailing zeros
Normalise(neg, digits, e) ==
    LET used == {i \in 1..Len(digits) : digits[i] # 0}
        first == CHOOSE i \in used : \A j \in used : i <= j
        last == CHOOSE i \in used : \A j \in used : j <= i
    IN IF used = {} THEN Finite(neg, <<>>, 0)
       ELSE Finite(neg, SubSeq(digits, first, last), e + Len(digits) - last)

\* The float literal m * 10^e of at most nine digits
Dec(m, e) == Normalise(m < 0, NatDigits(IF m < 0 THEN -m ELSE m), e)

\* ---- natural numbers of any size: limbs below BigBase, lowest first ----
\* The operators work on all limbs at once, without recursion over them,
\* and take every value they use more than once as an argument.
BigBase == 10 * 100

Limb(a, i) == IF 1 <= i /\ i <= Len(a) THEN a[i] ELSE 0

MaxOf(S) == CHOOSE x \in S : \A y \in S : y <= x

MinOf(S) == CHOOSE x \in S : \A y \in S : x <= y

\* Without the zero limbs at the high end
BigTrim(a) ==
    SubSeq(a, 1, CHOOSE top \in 0..Len(a) :
                     /\ top = 0 \/ a[top] # 0
                     /\ \A j \in (top + 1)..Len(a) : a[j] = 0)

\* The number of limb sums e[i] <= 2 * BigBase - 2: a carry is 0 or 1, and
\* it enters limb i when a lower limb overflows and those between are full
BigCarry(e) ==
    LET carry(i) == \E j \in 1..(i - 1) :
                        e[j] >= BigBase /\ \A k \in (j + 1)..(i - 1) : e[k] = BigBase - 1
    IN BigTrim([i \in 1..(Len(e) + 1) |->
                   (Limb(e, i) + (IF carry(i) THEN 1 ELSE 0)) % BigBase])

\* a + b
BigAdd(a, b) ==
    IF a = <<>> THEN b
    ELSE IF b = <<>> THEN a
    ELSE BigCarry([i \in 1..(IF Len(a) > Len(b) THEN Len(a) ELSE Len(b)) |->
                      Limb(a, i) + Limb(b, i)] \o <<>>)

\* a - b for a >= b: limb i lends when a lower limb of a is smaller than
\* that of b and those between are equal
BigSub(a, b) ==
    LET borrow(i) == \E j \in 1..(i - 1) :
                         /\ a[j] < Limb(b, j)
                         /\ \A k \in (j + 1)..(i - 1) : a[k] = Limb(b, k)
    IN IF a = b THEN <<>>
       ELSE BigTrim([i \in 1..Len(a) |->
                        (a[i] - Limb(b, i) - (IF borrow(i) THEN 1 ELSE 0) + BigBase)
                            % BigBase])

\* a < b
BigLess(a, b) ==
    IF Len(a) # Len(b) THEN Len(a) < Len(b)
    ELSE \E i \in 1..Len(a) : a[i] < b[i] /\ \A j \in (i + 1)..Len(a) : a[j] = b[j]

\* a < b, or a <= b when not strict
BigBelow(a, b, strict) == IF strict THEN BigLess(a, b) ELSE ~BigLess(b, a)

\* The limb of place p of a column c below 2^31
BigPart(c, p) ==
    CASE p = 0 -> c % BigBase
      [] p = 1 -> (c \div BigBase) % BigBase
      [] p = 2 -> (c \div (BigBase * BigBase)) % BigBase
      [] p = 3 -> c \div (BigBase * BigBase * BigBase)

\* The columns, each split into its limbs and these added in their places
BigSplit(cols) ==
    [k \in 1..(Len(cols) + 3) |->
        BigPart(Limb(cols, k), 0) + BigPart(Limb(cols, k - 1), 1)
            + BigPart(Limb(cols, k - 2), 2) + BigPart(Limb(cols, k - 3), 3)] \o <<>>

\* Sums of limbs, each handing what exceeds a limb to the next
BigFold(d) ==
    [k \in 1..(Len(d) + 1) |-> (Limb(d, k) % BigBase) + (Limb(d, k - 1) \div BigBase)] \o <<>>

\* The number of columns cols[i] * BigBase^(i-1), each column below 2^31
BigSpread(cols) == BigCarry(BigFold(BigSplit(cols)))

\* a * k for a natural k up to a million
BigTimes(a, k) ==
    IF a = <<>> \/ k = 0 THEN <<>>
    ELSE BigSpread([i \in 1..Len(a) |-> a[i] * k] \o <<>>)

\* The sum of the products a[i] * b[k + 1 - i]
RECURSIVE BigColumn(_, _, _, _)
BigColumn(a, b, k, i) ==
    IF i > Len(a) \/ i > k THEN 0
    ELSE a[i] * Limb(b, k + 1 - i) + BigColumn(a, b, k, i + 1)

\* a * b
BigMul(a, b) ==
    IF a = <<>> \/ b = <<>> THEN <<>>
    ELSE BigSpread([k \in 1..(Len(a) + Len(b) - 1) |->
                       IF Len(a) < Len(b) THEN BigColumn(a, b, k, 1)
                       ELSE BigColumn(b, a, k, 1)] \o <<>>)

BigSquare(a) == BigMul(a, a)

\* k^n for 0 < k < BigBase, by squaring; 1 for n <= 0
RECURSIVE BigPow(_, _)
BigPow(k, n) ==
    IF n <= 0 THEN <<1>>
    ELSE BigTimes(BigSquare(BigPow(k, n \div 2)), IF n % 2 = 1 THEN k ELSE 1)

\* a * k^n, a itself for n <= 0
BigTimesPow(a, k, n) == IF n <= 0 THEN a ELSE BigMul(a, BigPow(k, n))

\* a * BigBase^i
BigShift(a, i) == IF a = <<>> THEN <<>> ELSE [j \in 1..i |-> 0] \o a

BigOdd(a) == a # <<>> /\ a[1] % 2 = 1

\* The decimal digits of a, highest first
BigDigits(a) ==
    LET digit(r) == (a[r \div 3 + 1]
                         \div (CASE r % 3 = 0 -> 1 [] r % 3 = 1 -> 10 [] r % 3 = 2 -> 100)) % 10
        lead == IF a = <<>> THEN 0
                ELSE IF a[Len(a)] >= 100 THEN 0
                ELSE IF a[Len(a)] >= 10 THEN 1
                ELSE 2
    IN SubSeq([p \in 1..(3 * Len(a)) |-> digit(3 * Len(a) - p)] \o <<>>, lead + 1, 3 * Len(a))

\* The number of decimal digits of a
BigLen10(a) == Len(BigDigits(a))

\* The natural number of a sequence of decimal digits, highest first
BigOfDigits(ds) ==
    LET fromRight(r) == IF r < Len(ds) THEN ds[Len(ds) - r] ELSE 0
    IN BigTrim([j \in 1..((Len(ds) + 2) \div 3) |->
                   fromRight(3 * j - 3) + 10 * fromRight(3 * j - 2)
                       + 100 * fromRight(3 * j - 1)])

\* The three limbs of a from limb i up, as one number
BigLead(a, i) ==
    Limb(a, i) + Limb(a, i + 1) * BigBase + Limb(a, i + 2) * BigBase * BigBase

\* p <= r < p + x
BigWithin(r, x, p) == ~BigLess(r, p) /\ BigLess(BigSub(r, p), x)

\* r \div x for r < BigBase * x, from the leading limbs rt of r and xt of
\* x: exact when no limb was cut off, else chosen among the few limbs that
\* rt and xt allow
QuotFrom(r, x, rt, xt, exact) ==
    IF exact THEN rt \div xt
    ELSE CHOOSE q \in (rt \div (xt + 1))..
                          (IF (rt + 1) \div xt > BigBase - 1 THEN BigBase - 1
                           ELSE (rt + 1) \div xt) :
             BigWithin(r, x, BigTimes(x, q))

QuotLimb(r, x) ==
    QuotFrom(r, x, BigLead(r, IF Len(x) > 2 THEN Len(x) - 1 ELSE 1),
             BigLead(x, IF Len(x) > 2 THEN Len(x) - 1 ELSE 1), Len(x) <= 2)

\* The limbs of r \div d from the limb of BigBase^i down, lowest first, and
\* r % d, for r < d * BigBase^(i+1)
RECURSIVE BigDivFrom(_, _, _)
BigDivStep(r, d, i, q) ==
    LET left == BigSub(r, BigTimes(BigShift(d, i), q))
    IN IF i = 0 THEN [q |-> <<q>>, r |-> left]
       ELSE LET rest == BigDivFrom(left, d, i - 1)
            IN [q |-> Append(rest.q, q), r |-> rest.r]

BigDivFrom(r, d, i) == BigDivStep(r, d, i, QuotLimb(r, BigShift(d, i)))

\* The limbs of n \div d, and n % d, for d > 0
BigDivMod(n, d) ==
    IF Len(n) < Len(d) THEN [q |-> <<>>, r |-> n]
    ELSE BigDivFrom(n, d, Len(n) - Len(d))

\* ---- IEEE-754 binary64 ----
\* A double q * 2^e has 2^52 <= q < 2^53, or e = -1074 and q < 2^52
\* (subnormal); the largest has e = 971.
Two52 == BigPow(2, 52)

Two53 == BigPow(2, 53)

\* The double q * 2^e of a rounded quotient q <= 2^53
BinOf(q, e) ==
    CASE q = <<>> -> [cls |-> "zero"]
      [] q = Two53 -> (IF e + 1 > 971 THEN [cls |-> "inf"]
                       ELSE [cls |-> "num", q |-> Two52, e |-> e + 1])
      [] OTHER -> (IF e > 971 THEN [cls |-> "inf"] ELSE [cls |-> "num", q |-> q, e |-> e])

\* The quotient dv.q with remainder dv.r of a division by den, rounded to
\* the nearest natural, a tie to the even one
RoundQuot(dv, den, e) ==
    LET twice == BigTimes(dv.r, 2)
    IN BinOf(IF BigLess(den, twice) \/ (twice = den /\ BigOdd(dv.q))
             THEN BigAdd(BigTrim(dv.q), <<1>>) ELSE BigTrim(dv.q), e)

RoundDiv(num, den, e) == RoundQuot(BigDivMod(num, den), den, e)

\* n / d * 2^s rounded to a multiple of 2^e
RoundAt(n, d, s, e) == RoundDiv(BigTimesPow(n, 2, s - e), BigTimesPow(d, 2, e - s), e)

\* The f with 2^f <= n / d < 2^(f+1), where 10^(gap-1) < n / d < 10^(gap+1)
Log2Floor(n, d, gap) ==
    MaxOf({c \in (((gap - 1) * 3322) \div 1000 - 1)..(((gap + 1) * 3322) \div 1000 + 1) :
              ~BigLess(BigTimesPow(n, 2, -c), BigTimesPow(d, 2, c))})

\* The double nearest to n / d * 2^s for naturals n > 0 and d > 0, ties to
\* the even one: q * 2^e, zero on underflow, inf on overflow
RoundBin(n, d, s) ==
    LET e == s + Log2Floor(n, d, BigLen10(n) - BigLen10(d)) - 52
    IN RoundAt(n, d, s, IF e < -1074 THEN -1074 ELSE e)

\* The decimal of the digits ds with all but the first n set to zero, and
\* the unit of its n-th digit
DecPrefix(ds, n) == BigOfDigits([i \in 1..Len(ds) |-> IF i <= n THEN ds[i] ELSE 0])

DecUnit(ds, n) == BigOfDigits([i \in 1..Len(ds) |-> IF i = n THEN 1 ELSE 0])

\* Whether the digits may end with p or with u, the decimals just below and
\* just above r / s (ps = p * s, us = u * s): p if it lies above lo / s, u
\* if it lies below hi / s, of both the one nearer to r / s
EndBetween(p, u, ps, us, r, lo, hi, even) ==
    LET low == BigBelow(lo, ps, ~even)
        high == BigBelow(us, hi, ~even)
    IN [stop |-> low \/ high,
        digits |-> IF high /\ (~low \/ ~BigLess(BigTimes(r, 2), BigAdd(ps, us)))
                   THEN u ELSE p]

EndWith(p, u, r, s, lo, hi, even) ==
    EndBetween(p, u, BigMul(p, s), BigMul(u, s), r, lo, hi, even)

EndAt(p, one, r, s, lo, hi, even) == EndWith(p, BigAdd(p, one), r, s, lo, hi, even)

\* The end of the digits after the first n of ds
End(ds, n, r, s, lo, hi, even) == EndAt(DecPrefix(ds, n), DecUnit(ds, n), r, s, lo, hi, even)

\* The digits ds of r / s, cut where they first may end
ShortestFrom(neg, k, ds, r, s, lo, hi, even) ==
    Normalise(neg,
              BigDigits(End(ds, MinOf({n \in 1..Len(ds) : End(ds, n, r, s, lo, hi, even).stop}),
                            r, s, lo, hi, even).digits),
              k - Len(ds))

\* r / s < 1 written with 17 digits after the point
ShortestIn(neg, k, r, s, lo, hi, even, found) ==
    ShortestFrom(neg, k, [i \in 1..(17 - Len(found)) |-> 0] \o found, r, s, lo, hi, even)

\* The shortest decimal between lo / s and hi / s, of these the nearest to
\* r / s, for hi / s below 10^k: all are scaled by 10^(17-k)
ShortestScaled(neg, k, r, s, lo, hi, even) ==
    ShortestIn(neg, k, r, s, lo, hi, even, BigDigits(BigTrim(BigDivMod(r, s).q)))

\* The least k with hi / s < 10^k, or hi / s <= 10^k when the bound itself
\* does not round to the double
Log10Ceil(hi, s, gap, even) ==
    MinOf({c \in (gap - 1)..(gap + 2) :
              BigBelow(BigTimesPow(hi, 10, -c), BigTimesPow(s, 10, c), even)})

ShortestTo(neg, k, r, s, lo, hi, even) ==
    ShortestScaled(neg, k, BigTimesPow(r, 10, 17 - k), BigTimesPow(s, 10, k - 17),
                   BigTimesPow(lo, 10, 17 - k), BigTimesPow(hi, 10, 17 - k), even)

ShortestWithin(neg, r, s, lo, hi, even) ==
    ShortestTo(neg, Log10Ceil(hi, s, BigLen10(hi) - BigLen10(s), even), r, s, lo, hi, even)

\* The double r / s, with mhi / s and mlo / s half the gaps to the next
\* double above and below
ShortestGaps(neg, r, s, mhi, mlo, even) ==
    ShortestWithin(neg, r, s, BigSub(r, mlo), BigAdd(r, mhi), even)

\* The shortest decimal that rounds to the double q * 2^e, and of these the
\* nearest: what repr prints.  The gap below a power of two is half the gap
\* above it (extra = 2); the ends of the interval round to the double when
\* q is even.
ShortestOf(neg, q, up, down, extra) ==
    ShortestGaps(neg, BigTimesPow(q, 2, up + extra), BigPow(2, down + extra),
                 BigPow(2, up + extra - 1), BigPow(2, up), ~BigOdd(q))

Shortest(neg, q, e) ==
    ShortestOf(neg, q, IF e >= 0 THEN e ELSE 0, IF e < 0 THEN -e ELSE 0,
               IF q = Two52 /\ e > -1074 THEN 2 ELSE 1)

\* A rounded result as a float
OfBin(neg, b) ==
    CASE b.cls = "zero" -> Finite(neg, <<>>, 0)
      [] b.cls = "inf" -> Inf(neg)
      [] OTHER -> Shortest(neg, b.q, b.e)

\* The double of a finite float other than zero
ToBin(x) ==
    RoundBin(BigTimesPow(BigOfDigits(x.digits), 10, x.e), BigPow(10, -x.e), 0)

\* The double nearest to the decimal x and its shortest decimal
RoundDecimal(x) ==
    IF IsZero(x) THEN x
    ELSE IF x.e + Len(x.digits) > 310 THEN Inf(x.neg)
    ELSE IF x.e + Len(x.digits) < -330 THEN Finite(x.neg, <<>>, 0)
    ELSE OfBin(x.neg, ToBin(x))

\* A decimal of at most 15 digits within the range of the normal doubles
\* is the shortest decimal of its double.
FloatOf(x) ==
    IF Len(x.digits) <= 15 /\ x.e >= -290 /\ x.e + Len(x.digits) <= 290 THEN x
    ELSE RoundDecimal(x)

\* float of a decimal literal
FloatOfDecimal(neg, digits, e) == FloatOf(Normalise(neg, digits, e))

\* The rounded product of two doubles
MulBin(neg, a, b) == OfBin(neg, RoundBin(BigMul(a.q, b.q), <<1>>, a.e + b.e))

\* x * y of two floats
FloatMul(x, y) ==
    IF x.cls = "nan" \/ y.cls = "nan" THEN NaN
    ELSE IF x.cls = "inf" \/ y.cls = "inf"
    THEN (IF IsZero(x) \/ IsZero(y) THEN NaN ELSE Inf(x.neg # y.neg))
    ELSE IF IsZero(x) \/ IsZero(y) THEN Finite(x.neg # y.neg, <<>>, 0)
    ELSE MulBin(x.neg # y.neg, ToBin(x), ToBin(y))

Digits == {"0", "1", "2", "3", "4", "5", "6", "7", "8", "9"}

DigitVal(c) ==
    CASE c = "0" -> 0 [] c = "1" -> 1 [] c = "2" -> 2 [] c = "3" -> 3
      [] c = "4" -> 4 [] c = "5" -> 5 [] c = "6" -> 6 [] c = "7" -> 7
      [] c = "8" -> 8 [] c = "9" -> 9

RECURSIVE DigitsVal(_)
DigitsVal(t) ==
    IF t = <<>> THEN 0
    ELSE 10 * DigitsVal(SubSeq(t, 1, Len(t) - 1)) + DigitVal(t[Len(t)])

\* The blanks float() drops around its text.  Of the characters a string of
\* this module can hold (U+0000 to U+00FF) these are tab, line feed, U+000B,
\* form feed, carriage return, the blank, U+0085 and the no-break space
\* U+00A0.
FloatBlanks ==
    { "\t", "\n", "", "\f", "\r", " ", "", " " }

\* The characters str.strip() drops, those str.isspace() holds for: the
\* blanks of float() and the separators U+001C to U+001F.  The blanks beyond
\* U+00FF (U+1680, U+2000 to U+200A, U+2028, U+2029, U+202F, U+205F, U+3000)
\* cannot be written here.
Whitespace ==
    FloatBlanks \cup { "", "", "", "" }

RECURSIVE LStrip(_, _)
LStrip(t, blanks) == IF t # <<>> /\ t[1] \in blanks THEN LStrip(Tail(t), blanks) ELSE t

RECURSIVE RStrip(_, _)
RStrip(t, blanks) ==
    IF t # <<>> /\ t[Len(t)] \in blanks THEN RStrip(SubSeq(t, 1, Len(t) - 1), blanks) ELSE t

\* str.strip()
Strip(t) == RStrip(LStrip(t, Whitespace), Whitespace)

\* The text float() parses
FloatStrip(t) == RStrip(LStrip(t, FloatBlanks), FloatBlanks)

\* str.lower() of one character, for the characters a string of this module
\* can hold (U+0000 to U+00FF): A to Z and the capital letters U+00C0 to
\* U+00DE.  Capital letters beyond U+00FF, among them the Kelvin sign U+212A
\* that lower() turns into k, cannot be written here.
LowerChar(c) ==
    CASE c = "A" -> "a" [] c = "B" -> "b" [] c = "C" -> "c" [] c = "D" -> "d" [] c = "E" -> "e"
      [] c = "F" -> "f" [] c = "G" -> "g" [] c = "H" -> "h" [] c = "I" -> "i" [] c = "J" -> "j"
      [] c = "K" -> "k" [] c = "L" -> "l" [] c = "M" -> "m" [] c = "N" -> "n" [] c = "O" -> "o"
      [] c = "P" -> "p" [] c = "Q" -> "q" [] c = "R" -> "r" [] c = "S" -> "s" [] c = "T" -> "t"
      [] c = "U" -> "u" [] c = "V" -> "v" [] c = "W" -> "w" [] c = "X" -> "x" [] c = "Y" -> "y"
      [] c = "Z" -> "z"
      [] c = "À" -> "à" [] c = "Á" -> "á" [] c = "Â" -> "â" [] c = "Ã" -> "ã" [] c = "Ä" -> "ä"
      [] c = "Å" -> "å" [] c = "Æ" -> "æ" [] c = "Ç" -> "ç" [] c = "È" -> "è" [] c = "É" -> "é"
      [] c = "Ê" -> "ê" [] c = "Ë" -> "ë" [] c = "Ì" -> "ì" [] c = "Í" -> "í" [] c = "Î" -> "î"
      [] c = "Ï" -> "ï" [] c = "Ð" -> "ð" [] c = "Ñ" -> "ñ" [] c = "Ò" -> "ò" [] c = "Ó" -> "ó"
      [] c = "Ô" -> "ô" [] c = "Õ" -> "õ" [] c = "Ö" -> "ö" [] c = "Ø" -> "ø" [] c = "Ù" -> "ù"
      [] c = "Ú" -> "ú" [] c = "Û" -> "û" [] c = "Ü" -> "ü" [] c = "Ý" -> "ý" [] c = "Þ" -> "þ"
      [] OTHER -> c

Lower(t) == [i \in 1..Len(t) |-> LowerChar(t[i])]

\* str.replace(old, new) for one-character old and new
ReplaceChar(t, old, new) == [i \in 1..Len(t) |-> IF t[i] = old THEN new ELSE t[i]]

\* str.replace(c, '')
RemoveChar(t, c) == SelectSeq(t, LAMBDA x : x # c)

\* `c in s` for a one-character c
HasChar(t, c) == \E i \in 1..Len(t) : t[i] = c

\* `sub in s`
HasSub(t, sub) ==
    \E i \in 1..(Len(t) - Len(sub) + 1) : SubSeq(t, i, i + Len(sub) - 1) = sub

\* An underscore of a numeric literal stands between two digits
UnderscoresFit(t) ==
    \A i \in 1..Len(t) :
        t[i] = "_" => i > 1 /\ i < Len(t) /\ t[i - 1] \in Digits /\ t[i + 1] \in Digits

\* A text without its sign
Unsigned(t) == IF t # <<>> /\ t[1] \in {"-", "+"} THEN Tail(t) ELSE t

\* The digits of a mantissa, the point left out
MantissaDigits(mant) ==
    [i \in 1..(Len(mant) - Cardinality({j \in 1..Len(mant) : mant[j] = "."})) |->
        DigitVal(RemoveChar(mant, ".")[i])]

\* The number of digits after the point
FractionLen(mant) ==
    IF \E i \in 1..Len(mant) : mant[i] = "."
    THEN Len(mant) - (CHOOSE i \in 1..Len(mant) : mant[i] = ".")
    ELSE 0

\* Digits with at most one point and at least one digit
MantissaFits(mant) ==
    /\ \A i \in 1..Len(mant) : mant[i] \in Digits \cup {"."}
    /\ Cardinality({i \in 1..Len(mant) : mant[i] = "."}) <= 1
    /\ \E i \in 1..Len(mant) : mant[i] \in Digits

\* At least one digit and nothing else
AllDigits(t) == t # <<>> /\ \A i \in 1..Len(t) : t[i] \in Digits

\* The value of exponent digits; beyond five significant digits every
\* float is zero or inf
ExponentMag(ds) ==
    LET used == {i \in 1..Len(ds) : ds[i] # "0"}
    IN IF used = {} THEN 0
       ELSE IF Len(ds) - MinOf(used) + 1 > 5 THEN 99999
       ELSE DigitsVal(SubSeq(ds, MinOf(used), Len(ds)))

ExponentVal(expo) ==
    IF expo # <<>> /\ expo[1] = "-" THEN -ExponentMag(Unsigned(expo))
    ELSE ExponentMag(Unsigned(expo))

\* A mantissa and, if the literal has one, an exponent
ParseMantissa(neg, mant, hasExp, expo) ==
    IF ~MantissaFits(mant) \/ (hasExp /\ ~AllDigits(Unsigned(expo))) THEN NoneVal
    ELSE FloatOfDecimal(neg, MantissaDigits(mant), ExponentVal(expo) - FractionLen(mant))

\* A literal whose first e or E stands at mark
ParseParts(neg, body, mark) ==
    ParseMantissa(neg, SubSeq(body, 1, mark - 1), mark <= Len(body),
                  SubSeq(body, mark + 1, Len(body)))

ParseDecimal(neg, body) ==
    ParseParts(neg, body, MinOf({i \in 1..(Len(body) + 1) :
                                    i = Len(body) + 1 \/ body[i] \in {"e", "E"}}))

ParseUnsigned(neg, raw) ==
    IF Lower(raw) \in {<<"i", "n", "f">>, <<"i", "n", "f", "i", "n", "i", "t", "y">>}
    THEN Inf(neg)
    ELSE IF Lower(raw) = <<"n", "a", "n">> THEN NaN
    ELSE IF ~UnderscoresFit(raw) THEN NoneVal
    ELSE ParseDecimal(neg, RemoveChar(raw, "_"))

ParseStripped(t) == ParseUnsigned(t # <<>> /\ t[1] = "-", Unsigned(t))

\* float(text): blanks around it are dropped; an optional sign, then inf,
\* infinity or nan in any case, or digits with at most one point and at
\* least one digit, single underscores between digits, and an optional
\* exponent of e or E, an optional sign and digits.  Anything else raises
\* ValueError (NoneVal).
ParseFloat(text) == ParseStripped(FloatStrip(text))

Raised(x) == x = NoneVal

(***************************************************************************)
(* WasFileDialog.parse_time                                                *)
(***************************************************************************)
\* The exponent of the multiplier of each suffix letter.
SuffixOtherExp(c) ==
    CASE c = "k" -> 3 [] c = "m" -> -3 [] c = "u" -> -3 [] c = "n" -> -9 [] c = "p" -> -12

SuffixExp(c) ==
    CASE c = "k" -> 3 [] c = "m" -> -3 [] c = "u" -> -6 [] c = "n" -> -9 [] c = "p" -> -12

\* x * 1e<k> of a parsed float; a ValueError of float() is caught and gives
\* None
TimesMultiplier(x, c) ==
    IF Raised(x) THEN NoneVal ELSE FloatMul(x, Dec(1, SuffixExp(c)))

\* float(s.replace(c, '')) * 1e<k>
TimesSuffix(s, c) == TimesMultiplier(ParseFloat(RemoveChar(s, c)), c)

\* The branch the if-chain takes: the first of k, m, u, n, p that s holds
SuffixBranch(s) ==
    IF HasChar(s, "k") THEN "k"
    ELSE IF HasChar(s, "m") THEN "m"
    ELSE IF HasChar(s, "u") THEN "u"
    ELSE IF HasChar(s, "n") THEN "n"
    ELSE IF HasChar(s, "p") THEN "p"
    ELSE "none"

ParseTimeBranch(s, c) ==
    IF c # "none" THEN TimesSuffix(s, c)
    ELSE IF HasSub(s, <<"1", "n", "1">>) THEN Dec(1, -9)
    ELSE ParseFloat(s)

ParseTimeOf(s) == ParseTimeBranch(s, SuffixBranch(s))

parse_time(text) == ParseTimeOf(ReplaceChar(Lower(Strip(text)), ",", "."))

\* The characters typed into the time/div field.
TimeChars == {"0", "1", "5", ".", ",", "-", " ", "k", "m", "u", "n", "p", "K", "b"}

RECURSIVE TextsUpTo(_, _)
TextsUpTo(chars, n) ==
    IF n = 0 THEN {<<>>}
    ELSE LET shorter == TextsUpTo(chars, n - 1)
         IN shorter \cup {Append(t, c) : t \in shorter, c \in chars}

\* The texts of the specification's examples, and texts that float() takes
\* beyond plain decimals: an exponent, an underscore, inf and nan.
TimeExamples ==
    { <<"1", "0", "0", "k">>, <<"1", "u">>, <<"0", ".", "0", "0", "1">>,
      <<"a", "b", "c">>, <<"1", "e", "3">>, <<"1", "_", "0">>, <<"i", "n", "f">>,
      <<"i", "n", "f", "k">>, <<"n", "a", "n", "k">>, <<"1", "E", "-", "3", "u">> }

TimeInputs(n) == TextsUpTo(TimeChars, n) \cup TimeExamples

TimeInit ==
    /\ fn_in \in TimeInputs(MaxTextLen)
    /\ fn_out = Pending
    /\ GuiIdle

ParseTimeCall ==
    /\ fn_out = Pending
    /\ fn_out' = parse_time(fn_in)
    /\ UNCHANGED <<fn_in, guiVars>>

TimeNext == ParseTimeCall

SpecTime == TimeInit /\ [][TimeNext]_vars

(***************************************************************************)
(* Claims about parse_time                                                 *)
(***************************************************************************)
SuffixOrder == <<"k", "m", "u", "n", "p">>

\* The multiplier the specification gives for a suffix, as a power of ten.
C8_Multiplier(c) ==
    CASE c = "k" -> 3 [] c = "m" -> -3 [] c = "u" -> -6 [] c = "n" -> -9 [] c = "p" -> -12

C8_Text == ReplaceChar(Lower(fn_in), ",", ".")

C8_Found == {i \in 1..Len(SuffixOrder) : HasChar(C8_Text, SuffixOrder[i])}

\* C8: parseEngineeringTime lower-cases, turns the comma into a point, takes
\* the first of k, m, u, n, p that occurs, and returns the number left after
\* removing that letter times its multiplier; without a letter the number
\* itself; null whenever that number does not parse.  "100k" is 100000,
\* "1u" is 1e-6, "0.001" is 0.001 and "abc" is null.
C8_ParseEngineeringTime ==
    fn_out # Pending =>
        /\ C8_Found = {} => fn_out = ParseFloat(C8_Text)
        /\ C8_Found # {} =>
              LET first == SuffixOrder[CHOOSE i \in C8_Found : \A j \in C8_Found : i <= j]
                  left == ParseFloat(RemoveChar(C8_Text, first))
              IN IF left = NoneVal THEN fn_out = NoneVal
                 ELSE fn_out = FloatMul(left, Dec(1, C8_Multiplier(first)))
        /\ fn_in = <<"1", "0", "0", "k">> => fn_out = Dec(100000, 0)
        /\ fn_in = <<"1", "u">> => fn_out = Dec(1, -6)
        /\ fn_in = <<"0", ".", "0", "0", "1">> => fn_out = Dec(1, -3)
        /\ fn_in = <<"a", "b", "c">> => fn_out = NoneVal

\* C8 witness: an upper-case suffix with a decimal comma was parsed.
C8_Witness ==
    /\ fn_in = <<",", "5", "K">>
    /\ fn_out = Dec(500, 0)

(***************************************************************************)
(* EffFileDialog.get_inst_file_variables: the variable names of an         *)
(* instrument document                                                     *)
(***************************************************************************)
\* dict.get(key, default)
Get(d, key, default) == IF key \in DOMAIN d THEN d[key] ELSE default

\* Python's order of the variable names (str comparison).  A name is a str,
\* a sequence of characters.
VarOrder == << <<"I">>, <<"T">>, <<"V">>, <<"W">> >>
VarRank(v) == CHOOSE i \in 1..Len(VarOrder) : VarOrder[i] = v

\* sorted(set(lst))
RECURSIVE SortSet(_)
SortSet(S) ==
    IF S = {} THEN <<>>
    ELSE LET least == CHOOSE v \in S : \A w \in S : VarRank(v) <= VarRank(w)
         IN <<least>> \o SortSet(S \ {least})

SortedSet(lst) == SortSet(Range(lst))

\* `for ch in channels: var = ch.get(key, ''); if var: lst.append(var)`
RECURSIVE CollectVars(_, _)
CollectVars(channels, key) ==
    IF channels = <<>> THEN <<>>
    ELSE LET var == Get(Head(channels), key, <<>>)
         IN (IF var # <<>> THEN <<var>> ELSE <<>>) \o CollectVars(Tail(channels), key)

IsSetpointTypeLoose(type_key) ==
    type_key \in {"power_supplies", "electronic_loads", "oscilloscopes"}

IsSetpointType(type_key) == type_key \in {"power_supplies", "electronic_loads"}

IsMeasureType(type_key) == type_key \in {"dataloggers"}

\* The loop over inst_data['instruments']: (setpoint_vars, measured_vars)
RECURSIVE GatherVars(_)
GatherVars(instruments) ==
    IF instruments = <<>> THEN [setpoint |-> <<>>, measured |-> <<>>]
    ELSE LET inst == Head(instruments)
             type_key == Get(inst, "instrument_type", "")
             channels == Get(inst, "channels", <<>>)
             rest == GatherVars(Tail(instruments))
         IN IF IsSetpointType(type_key)
            THEN [rest EXCEPT !.setpoint = CollectVars(channels, "variable") \o @]
            ELSE IF IsMeasureType(type_key)
            THEN [rest EXCEPT !.measured = CollectVars(channels, "measured_variable") \o @]
            ELSE rest

\* The part of get_inst_file_variables that works on the loaded document.
ExtractVariableNames(inst_doc) ==
    LET g == GatherVars(Get(inst_doc, "instruments", <<>>))
        setpoint_vars == SortedSet(g.setpoint)
        measured_vars == SortedSet(setpoint_vars \o g.measured)
    IN [setpoint_vars |-> setpoint_vars, measured_vars |-> measured_vars]

InstrumentTypes == {"power_supplies", "dataloggers", "oscilloscopes", "electronic_loads"}

\* The channel dicts of the documents handed to the function.
ChannelShapes ==
    { [variable |-> <<"V">>], [variable |-> <<>>], [measured_variable |-> <<"I">>],
      [variable |-> <<"I">>, measured_variable |-> <<"T">>] }

RECURSIVE SumTo(_, _)
SumTo(counts, i) == IF i = 0 THEN 0 ELSE counts[i] + SumTo(counts, i - 1)

\* The document whose i-th instance has class types[i] and the next counts[i]
\* channel dicts of `shapes`.
DocFrom(types, counts, shapes) ==
    [instruments |->
        [i \in 1..Len(types) |->
            [instrument_type |-> types[i],
             channels |-> SubSeq(shapes, SumTo(counts, i - 1) + 1, SumTo(counts, i))]]]

\* Every document of at most MaxDocInst instances and MaxDocChannels channels.
VarsInit ==
    /\ \E n \in 0..MaxDocInst :
         \E types \in [1..n -> InstrumentTypes], counts \in [1..n -> 0..MaxDocChannels],
            shapes \in [1..MaxDocChannels -> ChannelShapes] :
             /\ SumTo(counts, n) <= MaxDocChannels
             /\ \A j \in 1..MaxDocChannels :
                    j > SumTo(counts, n) => shapes[j] = [variable |-> <<>>]
             /\ fn_in = DocFrom(types, counts, shapes)
    /\ fn_out = Pending
    /\ GuiIdle

ExtractCall ==
    /\ fn_out = Pending
    /\ fn_out' = ExtractVariableNames(fn_in)
    /\ UNCHANGED <<fn_in, guiVars>>

VarsNext == ExtractCall

SpecVars == VarsInit /\ [][VarsNext]_vars

(***************************************************************************)
(* Claims about the variable names                                         *)
(***************************************************************************)
\* The values of `key` on the channels of the instances of the given classes.
C4_Values(doc, classes, key) ==
    {ch[key] : ch \in {c \in UNION {Range(inst.channels) :
                                      inst \in {i \in Range(doc.instruments) :
                                                   i.instrument_type \in classes}} :
                        key \in DOMAIN c}} \ {<<>>}

C4_SortedNoDup(lst) ==
    \A i, j \in 1..Len(lst) : i < j => VarRank(lst[i]) < VarRank(lst[j])

\* C4: setpointVars is the sorted duplicate-free set of the non-empty
\* `variable` values of power_supplies and electronic_loads channels;
\* measuredVars is the sorted duplicate-free union of setpointVars and the
\* non-empty `measured_variable` values of dataloggers channels; setpointVars
\* is contained in measuredVars and other classes contribute nothing.
C4_ExtractVariableNames ==
    fn_out # Pending =>
        LET setpoint == C4_Values(fn_in, {"power_supplies", "electronic_loads"}, "variable")
            logged == C4_Values(fn_in, {"dataloggers"}, "measured_variable")
        IN /\ Range(fn_out.setpoint_vars) = setpoint
           /\ Range(fn_out.measured_vars) = setpoint \cup logged
           /\ C4_SortedNoDup(fn_out.setpoint_vars)
           /\ C4_SortedNoDup(fn_out.measured_vars)
           /\ Range(fn_out.setpoint_vars) \subseteq Range(fn_out.measured_vars)

\* C4 witness: the specification's example, a power supply channel with a
\* variable (V) and a datalogger channel with a measured variable (I).
C4_Witness ==
    /\ fn_in = [instruments |->
                  << [instrument_type |-> "power_supplies",
                      channels |-> <<[variable |-> <<"V">>]>>],
                     [instrument_type |-> "dataloggers",
                      channels |-> <<[measured_variable |-> <<"I">>]>>] >>]
    /\ fn_out = [setpoint_vars |-> << <<"V">> >>, measured_vars |-> << <<"I">>, <<"V">> >>]

(***************************************************************************)
(* InstFileDialog.load_instrument_library                                  *)
(*                                                                         *)
(* A JSON value is a record tagged by its Python type: None, an int, a     *)
(* str (with the class keys it contains as substrings), a list (of str     *)
(* items or of series dicts) or a dict.                                    *)
(***************************************************************************)
JNull == [t |-> "null"]
JNum == [t |-> "num"]
JStr(has) == [t |-> "str", has |-> has]
JList(items) == [t |-> "list", items |-> items]
JDict(d) == [t |-> "dict", d |-> d]

RaisedError == [t |-> "raised"]

LibraryKeys ==
    <<"power_supplies_series", "dataloggers_series", "oscilloscopes_series",
      "electronic_loads_series">>

\* `key in value`: "yes", "no", or "raised" (TypeError) for None and numbers
In(key, v) ==
    CASE v.t = "dict" -> IF key \in DOMAIN v.d THEN "yes" ELSE "no"
      [] v.t = "list" -> IF key \in Range(v.items) THEN "yes" ELSE "no"
      [] v.t = "str"  -> IF key \in v.has THEN "yes" ELSE "no"
      [] OTHER        -> "raised"

\* `value[key]` for a str key that `in` has found
GetItem(v, key) == IF v.t = "dict" THEN v.d[key] ELSE RaisedError

\* `value[key] = item`
SetItem(v, key, item) ==
    IF v.t = "dict"
    THEN JDict([k \in DOMAIN v.d \cup {key} |-> IF k = key THEN item ELSE v.d[k]])
    ELSE RaisedError

\* `for k in [...]: if k not in data: data[k] = []`, from the i-th key on
RECURSIVE EnsureKeys(_, _)
EnsureKeys(data, i) ==
    IF i > Len(LibraryKeys) THEN data
    ELSE LET k == LibraryKeys[i]
             present == In(k, data)
         IN IF present = "raised" THEN RaisedError
            ELSE IF present = "yes" THEN EnsureKeys(data, i + 1)
            ELSE LET set == SetItem(data, k, JList(<<>>))
                 IN IF set = RaisedError THEN RaisedError
                    ELSE EnsureKeys(set, i + 1)

EmptyLibrary == JDict([k \in Range(LibraryKeys) |-> JList(<<>>)])

\* The body of the try block, for the parsed document
LoadParsed(data) ==
    LET wrapped == In("instrument_library", data)
        inner == IF wrapped = "raised" THEN RaisedError
                 ELSE IF wrapped = "yes" THEN GetItem(data, "instrument_library")
                 ELSE data
    IN IF inner = RaisedError THEN RaisedError ELSE EnsureKeys(inner, 1)

load_instrument_library(file) ==
    IF file.state # "parsed" THEN EmptyLibrary
    ELSE LET r == LoadParsed(file.data)
         IN IF r = RaisedError THEN EmptyLibrary ELSE r

\* InstFileDialog.update_series_combo: "ok" when the series of the class were
\* listed, "raised" when the handler ends with an exception.
update_series_combo(library, type_key) ==
    LET series_key == type_key
        present == In(series_key, library)
    IN IF present = "raised" THEN "raised"
       ELSE IF present = "no" THEN "ok"
       ELSE LET series_list == GetItem(library, series_key)
            IN IF series_list = RaisedError THEN "raised"
               ELSE IF series_list.t = "list"
                       /\ \A i \in 1..Len(series_list.items) :
                              series_list.items[i] = "series" THEN "ok"
               ELSE "raised"

\* What a class key may hold in the file.
ClassValues == {JList(<<>>), JList(<<"series">>), JNull}

\* The dicts over some of the class keys.
LibraryDicts ==
    UNION {{JDict(d) : d \in [keys -> ClassValues]} : keys \in SUBSET Range(LibraryKeys)}

WrappedValues ==
    LibraryDicts \cup {JNull, JNum, JList(<<>>), JStr({"dataloggers_series"})}

LibraryFiles ==
    {[state |-> "missing"], [state |-> "unparseable"]}
    \cup {[state |-> "parsed", data |-> v] :
            v \in LibraryDicts \cup {JNull, JNum, JList(<<>>), JList(LibraryKeys), JStr({})}}
    \cup {[state |-> "parsed", data |-> JDict([instrument_library |-> w])] :
            w \in WrappedValues}

LibInit ==
    /\ fn_in \in LibraryFiles
    /\ fn_out = Pending
    /\ GuiIdle

LibLoadCall ==
    /\ fn_out = Pending
    /\ fn_out' = [library |-> load_instrument_library(fn_in), lookup |-> "none"]
    /\ UNCHANGED <<fn_in, guiVars>>

LibLookupCall ==
    /\ fn_out # Pending
    /\ fn_out.lookup = "none"
    /\ \E i \in 1..Len(LibraryKeys) :
           fn_out' = [fn_out EXCEPT !.lookup = update_series_combo(fn_out.library, LibraryKeys[i])]
    /\ UNCHANGED <<fn_in, guiVars>>

LibNext == LibLoadCall \/ LibLookupCall

SpecLib == LibInit /\ [][LibNext]_vars

(***************************************************************************)
(* Claims about the library loader                                         *)
(***************************************************************************)
\* C5: for every content of instruments_lib.json the loader returns a
\* library in which all four class keys exist, each holding a sequence, and
\* the lookup of a class does not fail.
C5_LibraryComplete ==
    fn_out # Pending =>
        /\ fn_out.library.t = "dict"
        /\ \A i \in 1..Len(LibraryKeys) :
               /\ LibraryKeys[i] \in DOMAIN fn_out.library.d
               /\ fn_out.library.d[LibraryKeys[i]].t = "list"
        /\ fn_out.lookup # "raised"

(***************************************************************************)
(* Project document (MainWindow)                                           *)
(***************************************************************************)
\* current_project_data = None, and current_project_dir = None
NoProject == [kind |-> "none"]
NoDir == "None"
\* The value json.load returns for the text {}
EmptyDict == [kind |-> "empty_dict"]
Absent == [kind |-> "absent"]
\* The file an interrupted json.dump leaves behind: open(path, 'w') emptied
\* it and a write() raised before the text was complete
Truncated == [kind |-> "truncated"]

\* Project names (after strip) and the names typed in the file dialogs
ProjectNames == { <<"p">> }
\* The base names of the *.json files of the project directory
SidecarNames == ProjectNames \cup { <<"q">> }
\* The path of a *.json file; '' when none was stored
SidecarPath(dir, name) == [dir |-> dir, name |-> name]
NoPath == [kind |-> "no_path"]
BaseNames == { <<"a">> }
\* The texts typed into the project name dialog
NameInputs == { <<"p">>, <<" ", "p", " ">>, <<" ">>, <<>> }
\* The values of datetime.now() that occur.
Stamps == {1}
Exts == {".eff", ".was", ".txt", ".inst"}

\* A file name "<base>[_<stamp>]<ext>"; stamp 0 is the name without suffix.
FileName(base, stamp, ext) == [base |-> base, stamp |-> stamp, ext |-> ext]
FileNames ==
    {FileName(b, s, e) : b \in BaseNames \cup ProjectNames, s \in {0} \cup Stamps, e \in Exts}

\* The files the user picks in the "add existing file" dialog.
PickNames == {n \in FileNames : n.base \in BaseNames}

\* Directories a file picked in a file dialog may live in.
Dirs == {"project_dir", "other_dir"}

\* What the *.json files of the other directory hold
OtherSidecars == {"unreadable", "malformed", "null", "empty_dict"}

\* str.endswith on the file name
EndsWith(fname, ext) == fname.ext = ext

\* `if x not in lst: lst.append(x)`
AppendAlways(lst, x) == Append(lst, x)

AppendIfAbsent(lst, x) == IF x \in Range(lst) THEN lst ELSE Append(lst, x)

\* The file name add_project_file derives from the dialog's text.
GeneratedName(file_name, ext, adv_naming, adv_kind, now) ==
    IF adv_naming /\ adv_kind
        THEN FileName(file_name, now, ext)
        ELSE FileName(file_name, 0, ext)

\* The content the handlers write: "eff_default" is
\* {"type": "efficiency", "data": {}}, "was_default" is
\* {"type": "oscilloscope_settings", "settings": {}} and "inst_empty" is
\* {"instruments": []}
DefaultContentSwapped(ext) ==
    IF ext = ".eff" THEN "was_default" ELSE "eff_default"

DefaultContent(ext) ==
    IF ext = ".eff" THEN "eff_default" ELSE "was_default"

\* What a handler reports: the operation, its outcome, the file it was about,
\* whether that file was already in its list when the handler started and
\* what the file held then.
Report(op, result, file, listed, content) ==
    [op |-> op, result |-> result, file |-> file, listed_before |-> listed,
     content |-> content]

NoFile == FileName(<<>>, 0, "")

\* The report of create_new_project: also the text typed as the name, the
\* dict the handler built, whether it went on to add_project_file (the
\* answer Yes to "add a file now?") and the advanced_naming setting it read
CreateReport(result, file, name, created, add_now, adv_naming) ==
    [op |-> "create", result |-> result, file |-> file, listed_before |-> FALSE,
     content |-> "none", name |-> name, created |-> created, add_now |-> add_now,
     adv_naming |-> adv_naming]

\* The report of edit_project_file and of the editor it runs: the file, what
\* it held when the editor was opened and the document the editor holds
EditReport(result, file, content, held) ==
    [op |-> "edit", result |-> result, file |-> file, listed_before |-> TRUE,
     content |-> content, held |-> held]

\* create_new_project waits in add_project_file (line 381) for its
\* AddFileDialog
AddDialogOpen == last_op.op = "create" /\ last_op.result = "ok" /\ last_op.add_now

\* edit_project_file waits in exec_() of the editor of a file
EditorOpen == last_op.op = "edit" /\ last_op.result \in {"open", "changed"}

\* No modal dialog keeps the main window from taking a menu entry or a
\* double click
MainIdle == ~AddDialogOpen /\ ~EditorOpen

\* `if self.current_project_data and self.current_project_dir`
HasProject(data, dir) == data.kind = "project" /\ dir # NoDir

\* The body of add_project_file for an open project: the file is written
\* with the default content, its name is appended when it is not listed, the
\* project is written to <project_name>.json.
AddFile(data, files, sidecars, file_type, new_file) ==
    LET key == IF file_type = ".eff" THEN "eff_files" ELSE "was_files"
        new_list == AppendIfAbsent(data[key], new_file)
        new_data == [data EXCEPT ![key] = new_list]
    IN [data |-> new_data,
        files |-> [files EXCEPT ![new_file] = DefaultContent(file_type)],
        sidecars |-> [sidecars EXCEPT ![new_data.project_name] = new_data],
        listed |-> new_file \in Range(data[key])]

\* The dict create_new_project builds
ProjectData(project_id, now, project_name, inst_file) ==
    [kind |-> "project",
     project_id |-> project_id,
     created_at |-> now,
     last_opened |-> now,
     project_name |-> project_name,
     eff_files |-> <<>>,
     inst_file |-> inst_file,
     was_files |-> <<>>]

\* project_name.strip(): the name of the project
NameOf(t) == Strip(t)

\* A callback runs: of the main window or of the modal dialog it waits for
DialogStep ==
    /\ proj_steps < MaxProjSteps
    /\ proj_steps' = proj_steps + 1
    /\ UNCHANGED <<effVars, instVars, wasVars, dlgVars, fnVars>>

\* A handler of the main window is started from the menu or the file list
ProjStep == MainIdle /\ DialogStep

\* MainWindow.create_new_project with a blank name: the handler returns
create_blank_project ==
    \E input \in NameInputs :
        /\ ProjStep
        /\ NameOf(input) = <<>>
        /\ last_op' = CreateReport("blank", NoFile, input, NoProject, FALSE, FALSE)
        /\ UNCHANGED <<current_project_dir, current_project_data, dir_json,
                       dir_files, next_id, last_project_path>>

\* The write of create_new_project that raises, and where: open() raises
\* and the file stays as it was (absent when there was none), or a write()
\* of json.dump raises after open() and the file is left cut short
CreateFailures == {"none", "sidecar_open", "sidecar_write", "inst_open", "inst_write"}

\* <name>.json after `with open(project_file, 'w') ... json.dump(project_data, f)`
SidecarWritten(project_data, fail) ==
    CASE fail = "sidecar_open" -> dir_json
      [] fail = "sidecar_write" -> [dir_json EXCEPT ![project_data.project_name] = Truncated]
      [] OTHER -> [dir_json EXCEPT ![project_data.project_name] = project_data]

\* The .inst file after `with open(inst_path, 'w') ... json.dump(inst_data, f)`,
\* which is not reached when the first write raised
InstWritten(project_data, fail) ==
    CASE fail \in {"sidecar_open", "sidecar_write", "inst_open"} -> dir_files
      [] fail = "inst_write" -> [dir_files EXCEPT ![project_data.inst_file] = "cut_short"]
      [] OTHER -> [dir_files EXCEPT ![project_data.inst_file] = "inst_empty"]

\* A creation that makes the project current before its files are written
CreatedEager(project_data, fail) ==
    [dir |-> "project_dir", data |-> project_data,
     sidecars |-> SidecarWritten(project_data, fail),
     files |-> InstWritten(project_data, fail)]

\* The state create_new_project leaves: the sidecar and the .inst file are
\* written, then the project becomes the current one.  fail names the write
\* that raises.
Created(project_data, fail) ==
    [dir |-> IF fail = "none" THEN "project_dir" ELSE current_project_dir,
     data |-> IF fail = "none" THEN project_data ELSE current_project_data,
     sidecars |-> SidecarWritten(project_data, fail),
     files |-> InstWritten(project_data, fail)]

\* MainWindow.create_new_project, after a folder was chosen and a name that
\* is not blank was typed.  With the answer Yes to "add a file now?" the
\* handler calls add_project_file and waits for its AddFileDialog; a write
\* that raises ends the handler before the question.
create_new_project ==
    \E input \in NameInputs, adv_naming, adv_inst, add_now \in BOOLEAN, now \in Stamps,
       fail \in CreateFailures :
        LET project_name == NameOf(input)
            inst_file == GeneratedName(project_name, ".inst", adv_naming, adv_inst, now)
            project_data == ProjectData(next_id, now, project_name, inst_file)
            c == Created(project_data, fail)
        IN /\ ProjStep
           /\ project_name \in ProjectNames
           /\ next_id <= MaxProjects
           /\ add_now => fail = "none"
           /\ next_id' = next_id + 1
           /\ current_project_dir' = c.dir
           /\ current_project_data' = c.data
           /\ dir_json' = c.sidecars
           /\ dir_files' = c.files
           /\ last_project_path' = IF fail = "none"
                                   THEN SidecarPath("project_dir", project_name)
                                   ELSE last_project_path
           /\ last_op' = CreateReport(IF fail = "none" THEN "ok" ELSE "raised",
                                      inst_file, input, project_data, add_now, adv_naming)

\* What open(...) and json.load make of a *.json file
ReadSidecar(content) ==
    CASE content = "unreadable" -> [kind |-> "raised", error |-> "IOKind"]
      [] content = "malformed" -> [kind |-> "raised", error |-> "ParseKind"]
      [] content = "null" -> NoProject
      [] content = "empty_dict" -> EmptyDict

\* MainWindow.open_project, after a file was picked: a project file of the
\* project directory, or a *.json file of another directory.
open_project ==
    \/ \E n \in SidecarNames :
           /\ ProjStep
           /\ dir_json[n] # Absent
           /\ IF dir_json[n] = Truncated
              THEN \* json.load raises on a file cut short: the warning is shown
                   /\ last_op' = Report("open", "error", NoFile, FALSE, "malformed")
                   /\ UNCHANGED <<current_project_dir, current_project_data,
                                  last_project_path>>
              ELSE /\ current_project_dir' = "project_dir"
                   /\ current_project_data' = dir_json[n]
                   /\ last_project_path' = SidecarPath("project_dir", n)
                   /\ last_op' = Report("open", "ok", NoFile, FALSE, "project")
           /\ UNCHANGED <<dir_json, dir_files, next_id>>
    \/ \E content \in OtherSidecars :
           LET project_data == ReadSidecar(content)
           IN /\ ProjStep
              /\ IF project_data.kind = "raised"
                 THEN /\ UNCHANGED <<current_project_dir, current_project_data,
                                     last_project_path>>
                      /\ last_op' = Report("open", "error", NoFile, FALSE, content)
                 ELSE /\ current_project_dir' = "other_dir"
                      /\ current_project_data' = project_data
                      \* None has no attribute get: reported after the assignment
                      \* and before the path is stored
                      /\ last_project_path' =
                             IF project_data = NoProject THEN last_project_path
                             ELSE SidecarPath("other_dir", <<"x">>)
                      /\ last_op' = Report("open",
                                           IF project_data = NoProject THEN "error" ELSE "ok",
                                           NoFile, FALSE, content)
              /\ UNCHANGED <<dir_json, dir_files, next_id>>

\* MainWindow.add_project_file, after the AddFileDialog was accepted: called
\* from the menu, or by create_new_project, whose settings are then those
\* the handler read before.
add_project_file ==
    \E file_type \in {".eff", ".was"}, file_name \in BaseNames,
       adv_naming, adv_kind \in BOOLEAN, now \in Stamps :
        LET new_file == GeneratedName(file_name, file_type, adv_naming, adv_kind, now)
        IN /\ DialogStep
           /\ ~EditorOpen
           /\ AddDialogOpen => adv_naming = last_op.adv_naming
           /\ IF ~HasProject(current_project_data, current_project_dir)
              THEN /\ last_op' = Report("attachGenerated", "no_project", new_file, FALSE, "none")
                   /\ UNCHANGED <<current_project_dir, current_project_data, dir_json,
                                  dir_files, next_id, last_project_path>>
              ELSE LET added == AddFile(current_project_data, dir_files, dir_json,
                                        file_type, new_file)
                       key == IF file_type = ".eff" THEN "eff_files" ELSE "was_files"
                   IN /\ Len(added.data[key]) <= MaxFiles
                      /\ dir_files' = added.files
                      /\ current_project_data' = added.data
                      /\ dir_json' = added.sidecars
                      /\ last_op' = Report("attachGenerated", "ok", new_file, added.listed,
                                           dir_files[new_file])
                      /\ UNCHANGED <<current_project_dir, next_id, last_project_path>>

\* MainWindow.add_project_file, the AddFileDialog rejected: nothing is done
cancel_add_file ==
    /\ DialogStep
    /\ ~EditorOpen
    /\ last_op' = Report("attachGenerated", "cancelled", NoFile, FALSE, "none")
    /\ UNCHANGED <<current_project_dir, current_project_data, dir_json,
                   dir_files, next_id, last_project_path>>

\* The *.json files of the directory whose text contains the project id.
SidecarsOf(project_id) ==
    {n \in SidecarNames : dir_json[n].kind = "project" /\ dir_json[n].project_id = project_id}

\* The branch add_existing_file takes for a file name.
ClassifyLoose(fname) ==
    IF EndsWith(fname, ".was") THEN "was_files" ELSE "eff_files"

ClassifyExisting(fname) ==
    IF EndsWith(fname, ".eff") THEN "eff_files"
    ELSE IF EndsWith(fname, ".was") THEN "was_files"
    ELSE "unsupported"

\* MainWindow.add_existing_file, after a file was picked in the dialog.
add_existing_file ==
    \E dir \in Dirs, fname \in PickNames :
        /\ ProjStep
        /\ dir = "project_dir" => dir_files[fname] # "none"
        /\ IF ~HasProject(current_project_data, current_project_dir)
           THEN /\ last_op' = Report("attachExisting", "no_project", fname, FALSE, dir)
                /\ UNCHANGED <<current_project_dir, current_project_data, dir_json,
                               dir_files, next_id, last_project_path>>
           ELSE IF ClassifyExisting(fname) = "unsupported"
           THEN /\ last_op' = Report("attachExisting", "unsupported", fname, FALSE, dir)
                /\ UNCHANGED <<current_project_dir, current_project_data, dir_json,
                               dir_files, next_id, last_project_path>>
           ELSE LET key == ClassifyExisting(fname)
                    new_list == AppendIfAbsent(current_project_data[key], fname)
                    data == [current_project_data EXCEPT ![key] = new_list]
                    project_file == SidecarsOf(data.project_id)
                IN /\ Len(new_list) <= MaxFiles
                   /\ current_project_data' = data
                   /\ IF project_file = {}
                      THEN dir_json' = dir_json
                      ELSE \E first \in project_file :
                               dir_json' = [dir_json EXCEPT ![first] = data]
                   /\ last_op' = Report("attachExisting", "ok", fname,
                                        fname \in Range(current_project_data[key]), dir)
                   /\ UNCHANGED <<current_project_dir, dir_files, next_id, last_project_path>>

\* The files refresh_project_files shows in the list: the instrument file,
\* the sweep documents and the scope documents
ListedFiles(data) ==
    {data.inst_file} \cup Range(data.eff_files) \cup Range(data.was_files)

\* The default document of an editor: {"type": "efficiency", "data": {}},
\* {"type": "oscilloscope_settings", "settings": {}} or {"instruments": []}
EditorDefault(fname) ==
    CASE fname.ext = ".eff" -> "eff_default"
      [] fname.ext = ".was" -> "was_default"
      [] OTHER -> "inst_empty"

\* The document an editor holds after its constructor: the one of the file,
\* or the default one when there is no file or json.load raises on it
EditorLoaded(fname) ==
    IF dir_files[fname] \in {"none", "cut_short"} THEN EditorDefault(fname)
    ELSE dir_files[fname]

\* A document the user changed in the editor
ChangedContent(fname) ==
    CASE fname.ext = ".eff" -> "eff_saved"
      [] fname.ext = ".was" -> "was_saved"
      [] OTHER -> "inst_saved"

\* The content save_changes of the editor writes: the document the editor
\* holds; EffFileDialog.save_changes adds sweep_variable and
\* measured_variable to it
SavedContent(fname, held) == IF fname.ext = ".eff" THEN "eff_saved" ELSE held

\* MainWindow.edit_project_file: a double click on a file of the list builds
\* its editor and waits in exec_(); the handler writes nothing
edit_project_file ==
    /\ ProjStep
    /\ HasProject(current_project_data, current_project_dir)
    /\ \E fname \in ListedFiles(current_project_data) :
           last_op' = EditReport("open", fname, dir_files[fname], EditorLoaded(fname))
    /\ UNCHANGED <<current_project_dir, current_project_data, dir_json, dir_files,
                   next_id, last_project_path>>

\* The user changes the document in the open editor.  In the sweep and the
\* scope editor the change stays in the dialog; in the instrument editor it
\* is an Add, and add_instrument_to_inst writes the file (save_inst_file)
editor_change ==
    /\ DialogStep
    /\ EditorOpen
    /\ last_op.held # ChangedContent(last_op.file)
    /\ last_op' = EditReport("changed", last_op.file, last_op.content,
                             ChangedContent(last_op.file))
    /\ dir_files' = IF last_op.file.ext = ".inst"
                    THEN [dir_files EXCEPT ![last_op.file] = ChangedContent(last_op.file)]
                    ELSE dir_files
    /\ UNCHANGED <<current_project_dir, current_project_data, dir_json, next_id,
                   last_project_path>>

\* save_changes of the open editor: the file is written and the dialog is
\* accepted
editor_save_changes ==
    /\ DialogStep
    /\ EditorOpen
    /\ dir_files' = [dir_files EXCEPT ![last_op.file] =
                                        SavedContent(last_op.file, last_op.held)]
    /\ last_op' = EditReport("saved", last_op.file, last_op.content, last_op.held)
    /\ UNCHANGED <<current_project_dir, current_project_data, dir_json, next_id,
                   last_project_path>>

\* The open editor is closed without Save
editor_reject ==
    /\ DialogStep
    /\ EditorOpen
    /\ last_op' = EditReport("closed", last_op.file, last_op.content, last_op.held)
    /\ UNCHANGED <<current_project_dir, current_project_data, dir_json, dir_files,
                   next_id, last_project_path>>

\* MainWindow.__init__ lines 264-275: the project of last_project_path is
\* made the current one when the path is stored and names a file that
\* json.load reads; an exception is passed over
OpenLastProject(path, sidecars) ==
    IF path = NoPath THEN [dir |-> NoDir, data |-> NoProject]
    ELSE IF path.dir = "other_dir" THEN [dir |-> "other_dir", data |-> EmptyDict]
    ELSE IF sidecars[path.name] \in {Absent, Truncated}
    THEN [dir |-> NoDir, data |-> NoProject]
    ELSE [dir |-> "project_dir", data |-> sidecars[path.name]]

\* The application is closed and started again: MainWindow.__init__
restart_application ==
    /\ ProjStep
    /\ current_project_dir' = OpenLastProject(last_project_path, dir_json).dir
    /\ current_project_data' = OpenLastProject(last_project_path, dir_json).data
    /\ last_op' = Report("init", "ok", NoFile, FALSE, "none")
    /\ UNCHANGED <<dir_json, dir_files, next_id, last_project_path>>

\* What the chosen directory may hold before the project is created.
PreExisting ==
    {{}, {FileName(<<"a">>, 0, ".was")}}

\* What an earlier session left: nothing, or the project p it created,
\* with its path in the store
EarlierProject == ProjectData(1, 1, <<"p">>, FileName(<<"p">>, 0, ".inst"))

EarlierSessions ==
    { [sidecars |-> [n \in SidecarNames |-> Absent], created |-> {},
       path |-> NoPath, next_id |-> 1],
      [sidecars |-> [n \in SidecarNames |-> IF n = <<"p">> THEN EarlierProject ELSE Absent],
       created |-> {FileName(<<"p">>, 0, ".inst")},
       path |-> SidecarPath("project_dir", <<"p">>), next_id |-> 2] }

\* The state after MainWindow.__init__
ProjInit ==
    /\ \E present \in PreExisting, earlier \in EarlierSessions :
           /\ dir_json = earlier.sidecars
           /\ dir_files = [n \in FileNames |-> IF n \in earlier.created THEN "inst_empty"
                                               ELSE IF n \in present THEN "user"
                                               ELSE "none"]
           /\ last_project_path = earlier.path
           /\ next_id = earlier.next_id
           /\ current_project_dir = OpenLastProject(earlier.path, earlier.sidecars).dir
           /\ current_project_data = OpenLastProject(earlier.path, earlier.sidecars).data
    /\ proj_steps = 0
    /\ last_op = Report("init", "ok", NoFile, FALSE, "none")
    /\ EffIdle
    /\ InstIdle
    /\ WasIdle
    /\ FnIdle /\ DlgIdle
ProjNext ==
    \/ restart_application
    \/ create_blank_project
    \/ create_new_project
    \/ open_project
    \/ add_project_file
    \/ cancel_add_file
    \/ add_existing_file
    \/ edit_project_file
    \/ editor_change
    \/ editor_save_changes
    \/ editor_reject

SpecProject == ProjInit /\ [][ProjNext]_vars

(***************************************************************************)
(* Claims about the project document                                       *)
(***************************************************************************)
ListsOf(data) == {data.eff_files, data.was_files}

\* C2: from a newly created project, after any sequence of attachGenerated
\* and attachExisting no name occurs twice in eff_files or in was_files, and
\* an attach of a name that is already listed leaves both lists as they were.
C2_FileListsUnique ==
    [][ /\ current_project_data'.kind = "project" =>
            \A lst \in ListsOf(current_project_data') : NoDup(lst)
        /\ ( /\ last_op'.op \in {"attachGenerated", "attachExisting"}
             /\ last_op'.result = "ok"
             /\ last_op'.listed_before )
           => /\ current_project_data'.eff_files = current_project_data.eff_files
              /\ current_project_data'.was_files = current_project_data.was_files
      ]_vars

\* C2 witness: an attach of an already listed name was carried out.
C2_Witness ==
    /\ last_op.op \in {"attachGenerated", "attachExisting"}
    /\ last_op.result = "ok"
    /\ last_op.listed_before
    /\ last_op.file \in Range(current_project_data.eff_files)
                        \cup Range(current_project_data.was_files)

\* C3: attachExisting of a name ending in neither .eff nor .was is reported
\* as unsupported and changes neither the lists nor the persisted project.
C3_UnsupportedKindNoChange ==
    [][ ( /\ last_op'.op = "attachExisting"
          /\ last_op'.file.ext \notin {".eff", ".was"}
          /\ HasProject(current_project_data, current_project_dir) )
        => /\ last_op'.result = "unsupported"
           /\ current_project_data' = current_project_data
           /\ dir_json' = dir_json
      ]_vars

\* C3 witness: a .txt file was refused while the open project lists files.
C3_Witness ==
    /\ last_op.op = "attachExisting"
    /\ last_op.result = "unsupported"
    /\ last_op.file.ext = ".txt"
    /\ current_project_data.kind = "project"
    /\ Len(current_project_data.eff_files) > 0


\* C12: every name in eff_files and was_files of a persisted project names
\* a file that exists in the project directory.
C12_ListedFilesExist ==
    \A n \in ProjectNames :
        dir_json[n].kind = "project" =>
            \A f \in Range(dir_json[n].eff_files) \cup Range(dir_json[n].was_files) :
                dir_files[f] # "none"

\* C13: an open of a file that is unreadable, malformed or not a project is
\* reported as an error and leaves the current directory and the current
\* project data as they were.
C13_FailedOpenKeepsProject ==
    [][ ( /\ last_op'.op = "open"
          /\ proj_steps' # proj_steps
          /\ last_op'.content # "project" )
        => /\ last_op'.result = "error"
           /\ current_project_dir' = current_project_dir
           /\ current_project_data' = current_project_data
      ]_vars

\* The project ids the directory and the main window hold
C18_KnownIds ==
    {dir_json[n].project_id : n \in {m \in ProjectNames : dir_json[m].kind = "project"}}
    \cup (IF current_project_data.kind = "project"
          THEN {current_project_data.project_id} ELSE {})

\* C18: create with a name that is not blank builds a project with a fresh
\* id, created_at equal to last_opened, the trimmed name, empty eff_files and
\* was_files and an inst_file made of the name; it writes the sidecar and an
\* empty instrument document, and the project is the current one only when
\* both are written.  With a blank name nothing is written and the current
\* project stays.
C18_Create ==
    [][ (last_op'.op = "create" /\ proj_steps' # proj_steps) =>
          LET r == last_op'
              d == r.created
              name == Strip(r.name)
          IN IF name = <<>>
             THEN /\ r.result = "blank"
                  /\ UNCHANGED <<current_project_dir, current_project_data,
                                 dir_json, dir_files>>
             ELSE /\ r.result \in {"ok", "raised"}
                  /\ d.project_id \notin C18_KnownIds
                  /\ d.created_at = d.last_opened
                  /\ d.project_name = name
                  /\ d.eff_files = <<>> /\ d.was_files = <<>>
                  /\ d.inst_file.base = name /\ d.inst_file.ext = ".inst"
                  /\ r.result = "ok" =>
                         /\ dir_json'[name] = current_project_data'
                         /\ dir_files'[d.inst_file] = "inst_empty"
                         /\ current_project_dir' = "project_dir"
                         /\ ~r.add_now => current_project_data' = d
                  /\ r.result = "raised" =>
                         /\ current_project_dir' = current_project_dir
                         /\ current_project_data' = current_project_data
                  /\ current_project_data' # current_project_data =>
                         /\ dir_json'[name].kind = "project"
                         /\ dir_files'[d.inst_file] = "inst_empty"
      ]_vars

\* C18 witness: a project was created from the name " p ", without a file
\* added on the way.
C18_Witness ==
    /\ last_op.op = "create" /\ last_op.result = "ok" /\ ~last_op.add_now
    /\ last_op.name = <<" ", "p", " ">>
    /\ current_project_data.kind = "project"
    /\ current_project_data.project_name = <<"p">>
    /\ current_project_data.inst_file = FileName(<<"p">>, 0, ".inst")
    /\ dir_files[FileName(<<"p">>, 0, ".inst")] = "inst_empty"
    /\ dir_json[<<"p">>] = current_project_data

\* C19: attachGenerated of a name that is already listed leaves both lists
\* as they were and leaves the file with the default content of its kind.
C19_ReattachResetsFile ==
    [][ ( /\ last_op'.op = "attachGenerated"
          /\ proj_steps' # proj_steps
          /\ last_op'.result = "ok"
          /\ last_op'.listed_before )
        => /\ current_project_data'.eff_files = current_project_data.eff_files
           /\ current_project_data'.was_files = current_project_data.was_files
           /\ dir_files'[last_op'.file] =
                 IF last_op'.file.ext = ".eff" THEN "eff_default" ELSE "was_default"
      ]_vars

\* C19 witness: a sweep document that had been saved in its editor was
\* attached again and holds the default content.
C19_Witness ==
    /\ last_op.op = "attachGenerated" /\ last_op.result = "ok"
    /\ last_op.listed_before
    /\ last_op.file.ext = ".eff"
    /\ last_op.content = "eff_saved"
    /\ dir_files[last_op.file] = "eff_default"
    /\ last_op.file \in Range(current_project_data.eff_files)


(***************************************************************************)
(* EffFileDialog: the sweep editor of a .eff document                      *)
(*                                                                         *)
(* The document is {"type": "efficiency", "data": {...}}; its data section *)
(* maps an axis name to a list of numbers or to a {start, stop, points}    *)
(* dict.  A JSON number is a float or an int.                              *)
(***************************************************************************)
AxisNames == {"Vin loop", "Iout loop"}

PyInt(n) == [kind |-> "int", v |-> n]

\* The minimum, maximum and initial value of the points spin boxes.
SpinMin == 2
SpinMax == 1000
SpinDefault == 5

DigitChar(d) ==
    CASE d = 0 -> "0" [] d = 1 -> "1" [] d = 2 -> "2" [] d = 3 -> "3"
      [] d = 4 -> "4" [] d = 5 -> "5" [] d = 6 -> "6" [] d = 7 -> "7"
      [] d = 8 -> "8" [] d = 9 -> "9"

\* The decimal digits of a natural number
RECURSIVE IntDigits(_)
IntDigits(n) ==
    IF n < 10 THEN <<DigitChar(n)>>
    ELSE Append(IntDigits(n \div 10), DigitChar(n % 10))

Zeros(k) == [i \in 1..k |-> "0"]

\* The exponent of a repr: a sign and at least two digits
ExponentText(ex) ==
    LET ds == IntDigits(IF ex < 0 THEN -ex ELSE ex)
    IN <<"e", IF ex < 0 THEN "-" ELSE "+">> \o (IF Len(ds) = 1 THEN <<"0">> ELSE <<>>) \o ds

\* str(x) of a float, which is its repr: the shortest digits that round to
\* x, with an exponent when the point would stand more than 16 digits to
\* the right of the first digit or more than 3 zeros to its left
FormatFloat(x) ==
    LET sign == IF x.neg THEN <<"-">> ELSE <<>>
        ds == IF x.digits = <<>> THEN <<"0">>
              ELSE [i \in 1..Len(x.digits) |-> DigitChar(x.digits[i])]
        n == Len(ds)
        decpt == IF x.digits = <<>> THEN 1 ELSE x.e + n
        body == IF decpt <= -4 \/ decpt > 16
                THEN <<ds[1]>> \o (IF n > 1 THEN <<".">> \o Tail(ds) ELSE <<>>)
                         \o ExponentText(decpt - 1)
                ELSE IF decpt <= 0 THEN <<"0", ".">> \o Zeros(-decpt) \o ds
                ELSE IF decpt >= n THEN ds \o Zeros(decpt - n) \o <<".", "0">>
                ELSE SubSeq(ds, 1, decpt) \o <<".">> \o SubSeq(ds, decpt + 1, n)
    IN IF x.cls = "nan" THEN <<"n", "a", "n">>
       ELSE IF x.cls = "inf" THEN sign \o <<"i", "n", "f">>
       ELSE sign \o body

\* str(v) of a JSON number
PyStr(v) ==
    IF v.kind = "int"
    THEN (IF v.v < 0 THEN <<"-">> ELSE <<>>) \o IntDigits(IF v.v < 0 THEN -v.v ELSE v.v)
    ELSE FormatFloat(v)

\* The natural number of a sequence of digits
RECURSIVE DigitsNat(_)
DigitsNat(ds) ==
    IF ds = <<>> THEN 0 ELSE 10 * DigitsNat(SubSeq(ds, 1, Len(ds) - 1)) + ds[Len(ds)]

\* 10^k
RECURSIVE Pow10(_)
Pow10(k) == IF k = 0 THEN 1 ELSE 10 * Pow10(k - 1)

\* int(v) raises OverflowError on an infinity and ValueError on a nan
IntRaises(v) == v.kind = "float" /\ v.cls # "num"

\* The exception int(v) raises
IntError(v) ==
    [kind |-> "raised", error |-> IF v.cls = "inf" THEN "OverflowError" ELSE "ValueError"]

\* The whole part of a finite float
Truncate(v) ==
    LET n == Len(v.digits)
        whole == IF v.e >= 0 THEN DigitsNat(v.digits) * Pow10(v.e)
                 ELSE IF -v.e >= n THEN 0
                 ELSE DigitsNat(SubSeq(v.digits, 1, n + v.e))
    IN IF v.neg THEN -whole ELSE whole

\* int(v) of a JSON number: an int as it is, a finite float truncated
\* towards zero, an exception for an infinity and for a nan
IntOf(v) ==
    IF v.kind = "int" THEN v
    ELSE IF IntRaises(v) THEN IntError(v)
    ELSE PyInt(Truncate(v))

\* QSpinBox.setValue: the value is bounded by the minimum and the maximum
SpinSetValue(n) == IF n < SpinMin THEN SpinMin ELSE IF n > SpinMax THEN SpinMax ELSE n

\* sep.join(texts)
JoinWith(texts, sep) ==
    LET RECURSIVE join(_)
        join(i) == IF i = 0 THEN <<>>
                   ELSE IF i = 1 THEN texts[1]
                   ELSE join(i - 1) \o sep \o texts[i]
    IN join(Len(texts))

JoinBlank(texts) == JoinWith(texts, <<" ">>)

\* ','.join(texts)
JoinComma(texts) == JoinWith(texts, <<",">>)

\* text.split(',')
RECURSIVE SplitComma(_)
SplitComma(text) ==
    IF \A i \in 1..Len(text) : text[i] # ","
    THEN <<text>>
    ELSE LET c == CHOOSE i \in 1..Len(text) :
                      text[i] = "," /\ \A j \in 1..(i - 1) : text[j] # ","
         IN <<SubSeq(text, 1, c - 1)>> \o SplitComma(SubSeq(text, c + 1, Len(text)))

\* json.loads(json.dumps(v)) of a number: a float is written as its repr and
\* read back with float(), an int stays an int
JsonNumber(v) ==
    IF v.kind = "int" \/ v.cls # "num" THEN v ELSE ParseFloat(FormatFloat(v))

\* The numbers of a list or of a dict, each written and read back
JsonNumbers(f) == [k \in DOMAIN f |-> JsonNumber(f[k])]

JsonRebuilt(v, f) == IF v.t = "list" THEN JList(f) ELSE JDict(f)

JsonValue(v) ==
    IF v.t \in {"list", "dict"}
    THEN JsonRebuilt(v, JsonNumbers(IF v.t = "list" THEN v.items ELSE v.d))
    ELSE v

JsonRoundTrip(doc) ==
    IF "data" \in DOMAIN doc
    THEN [doc EXCEPT !.data = [a \in DOMAIN doc.data |-> JsonValue(doc.data[a])]]
    ELSE doc

\* self.data.get('data', {}).get(axis, None)
SweepOf(doc, axis) ==
    IF "data" \in DOMAIN doc /\ axis \in DOMAIN doc.data THEN doc.data[axis] ELSE JNull

\* The widgets of one sweep group as the constructor leaves them.
DefaultAxisForm ==
    [mode |-> "list", list_text |-> <<>>, start_text |-> <<>>, stop_text |-> <<>>,
     points |-> SpinDefault]

\* spin.setValue(n) with n the result of int(): the spin box keeps its value
\* when int() raised
SpinSet(old, n) == IF n.kind = "raised" THEN old ELSE SpinSetValue(n.v)

\* spin.setValue(int(points))
PointsSet(old, points) == SpinSet(old, IntOf(points))

\* One axis of populate_params_from_json.  For a dict the radio button and
\* the two texts are set before int(v.get('points', 5)) is evaluated.
PopulateAxis(form, v) ==
    IF v.t = "list"
    THEN [form EXCEPT !.mode = "list",
                      !.list_text = JoinComma([i \in 1..Len(v.items) |-> PyStr(v.items[i])])]
    ELSE IF v.t = "dict"
    THEN [form EXCEPT !.mode = "range",
                      !.start_text = IF "start" \in DOMAIN v.d THEN PyStr(v.d.start) ELSE <<>>,
                      !.stop_text = IF "stop" \in DOMAIN v.d THEN PyStr(v.d.stop) ELSE <<>>,
                      !.points = PointsSet(form.points, Get(v.d, "points", PyInt(SpinDefault)))]
    ELSE form

\* The statements of populate_params_from_json for one axis raise
AxisRaises(v) ==
    v.t = "dict" /\ IntOf(Get(v.d, "points", PyInt(SpinDefault))).kind = "raised"

\* populate_params_from_json raises: what follows the raising statement, the
\* second axis and the selection of the variables, is not run
PopulateRaises(doc) == \E a \in AxisNames : AxisRaises(SweepOf(doc, a))

\* 'Vin loop' first, then 'Iout loop' unless the first raised
populate_params_from_json(form, doc) ==
    [a \in AxisNames |->
        IF a # "Vin loop" /\ AxisRaises(SweepOf(doc, "Vin loop"))
        THEN form[a]
        ELSE PopulateAxis(form[a], SweepOf(doc, a))]

\* float(x.strip()) of every token whose strip() is not empty
StrippedFloats(kept) == [i \in 1..Len(kept) |-> ParseFloat(Strip(kept[i]))]

TokenFloats(tokens) == StrippedFloats(SelectSeq(tokens, LAMBDA x : Strip(x) # <<>>))

\* The list comprehension raises when one float() raises
FloatsOrRaised(parsed) ==
    IF \E i \in 1..Len(parsed) : Raised(parsed[i]) THEN RaisedError ELSE JList(parsed)

\* [float(x.strip()) for x in tokens if x.strip()], keeping what parses
ParseFloatListLenient(tokens) ==
    JList(SelectSeq(TokenFloats(tokens), LAMBDA x : ~Raised(x)))

\* [float(x.strip()) for x in tokens if x.strip()]
ParseFloatList(tokens) == FloatsOrRaised(TokenFloats(tokens))

\* {'start': float(start), 'stop': float(stop), 'points': points}
RangeOrRaised(start, stop, points) ==
    IF Raised(start) \/ Raised(stop) THEN RaisedError
    ELSE JDict([start |-> start, stop |-> stop, points |-> PyInt(points)])

\* What the try block of one axis computes from the widgets: the value to
\* store, or RaisedError when a conversion raises.
AxisValue(form) ==
    IF form.mode = "list" THEN ParseFloatList(SplitComma(form.list_text))
    ELSE RangeOrRaised(ParseFloat(form.start_text), ParseFloat(form.stop_text), form.points)

\* self.data['data'][axis] = value: fails without a data section
StoresValue(doc, value) == value # RaisedError /\ "data" \in DOMAIN doc

Stores(doc, form, axis) == StoresValue(doc, AxisValue(form[axis]))

StoreAxis(doc, axis, value) ==
    IF StoresValue(doc, value)
    THEN [doc EXCEPT !.data = [a \in DOMAIN doc.data \cup {axis} |->
                                   IF a = axis THEN value ELSE doc.data[a]]]
    ELSE doc

ApplyAxis(doc, form, axis) == StoreAxis(doc, axis, AxisValue(form[axis]))

\* Both axes, the values of the widgets computed once
StoreAxes(doc, values) ==
    StoreAxis(StoreAxis(doc, "Vin loop", values["Vin loop"]),
              "Iout loop", values["Iout loop"])

AxisValues(form) == [a \in AxisNames |-> AxisValue(form[a])]

apply_params_to_json(doc, form) == StoreAxes(doc, AxisValues(form))


\* ---- the documents and the texts of the exploration ----
MaxEdits == 2        \* edits the user makes to the form or to the raw JSON

EffDoc(data) == [type |-> "efficiency", data |-> data]

\* {"type": "efficiency", "data": {}} as written for a new .eff file
DefaultEffDoc == EffDoc(<<>>)

RangeValue(start, stop, points) ==
    JDict([start |-> start, stop |-> stop, points |-> points])

\* Documents a .eff file may hold: the default one, one with a list of ints,
\* one saved with a list and a range, one whose range has more points than
\* the spin box allows, one without a data section, and one whose first
\* range has "points": Infinity.
EffFiles ==
    { DefaultEffDoc,
      EffDoc([a \in {"Vin loop"} |-> JList(<<PyInt(1), PyInt(2), PyInt(3)>>)]),
      EffDoc([a \in AxisNames |->
                 IF a = "Vin loop" THEN JList(<<Dec(15, -1), Dec(-5, -2)>>)
                 ELSE RangeValue(Dec(5, -1), Dec(5, 0), PyInt(10))]),
      EffDoc([a \in {"Iout loop"} |-> RangeValue(PyInt(0), PyInt(1), PyInt(5000))]),
      [type |-> "efficiency"],
      EffDoc([a \in AxisNames |->
                 IF a = "Vin loop" THEN RangeValue(PyInt(1), PyInt(2), Inf(FALSE))
                 ELSE JList(<<PyInt(7)>>)]) }

\* Texts typed into a list field
ListTexts ==
    { <<>>, <<"1">>, <<"1", ".", "5", ",", "-", "5">>, <<" ", "1", " ", ",", "5", " ">>,
      <<"1", ",", ",", "5">>, <<"x">>, <<"1", ",", "x">>, <<".", "5", ",", "1", ".">>,
      <<"1", "e", "3">>, <<"-", "0", ",", "1", "_", "0">>, <<"i", "n", "f">> }

\* Texts typed into a start or stop field
RangeTexts == { <<>>, <<"1">>, <<" ", "-", ".", "5", "0">>, <<"x">>, <<"1", "e", "3">> }

\* Values set on a points spin box
PointsChoices == {SpinMin, 10}

\* A str value and None, as values of a JSON document
StrVal(s) == [kind |-> "str", s |-> s]

\* A combo box filled with addItem: the first item is the current one
Combo(items) == [items |-> items, current |-> IF items = <<>> THEN -1 ELSE 0]

\* QComboBox.currentData()
CurrentData(combo) ==
    IF combo.current = -1 THEN NoneVal ELSE StrVal(combo.items[combo.current + 1])

\* setup_dynamic_variable_selectors: the two combo boxes for the variables
\* get_inst_file_variables found in the instrument document of the project
setup_dynamic_variable_selectors(inst_doc) ==
    LET found == ExtractVariableNames(inst_doc)
    IN [sweep |-> Combo(found.setpoint_vars), measured |-> Combo(found.measured_vars)]

\* The end of populate_params_from_json for one combo box: the variable of
\* the document becomes the current item when the combo box has it
SelectVariable(combo, doc, key) ==
    LET v == Get(doc, key, NoneVal)
    IN IF v # NoneVal /\ v.s # <<>> /\ v.s \in Range(combo.items)
       THEN [combo EXCEPT !.current =
                (CHOOSE i \in 1..Len(combo.items) : combo.items[i] = v.s) - 1]
       ELSE combo

SelectVariables(combos, doc) ==
    [sweep |-> SelectVariable(combos.sweep, doc, "sweep_variable"),
     measured |-> SelectVariable(combos.measured, doc, "measured_variable")]

\* The dialog is open: it was not closed by Save or by the user
EffIsOpen == eff_op.op \notin {"closed", "save"}

\* What open() and json.load raise on: a file found unreadable or malformed
\* (Truncated, the file an interrupted json.dump leaves behind, is another)
Unreadable == [kind |-> "unreadable"]

\* __init__ lines 796-802: the document of the file, the default one when
\* the file cannot be read
LoadEff(file) == IF file \in {Unreadable, Truncated} THEN DefaultEffDoc ELSE file

\* __init__ on a file of a project without instruments: the document of the
\* file, the widgets at their defaults, then populate_params_from_json.  A
\* file on which populate_params_from_json raises gives no dialog: the
\* exception leaves the constructor.
EffInit ==
    /\ eff_disk \in EffFiles
    /\ ~PopulateRaises(LoadEff(eff_disk))
    /\ eff_data = LoadEff(eff_disk)
    /\ eff_form = populate_params_from_json([a \in AxisNames |-> DefaultAxisForm], eff_data)
    /\ eff_combos = setup_dynamic_variable_selectors([instruments |-> <<>>])
    /\ eff_text = "json"
    /\ eff_edits = 0
    /\ eff_op = [op |-> "open"]
    /\ ProjIdle
    /\ InstIdle
    /\ WasIdle
    /\ FnIdle /\ DlgIdle
UserEdit(axis, field, value) ==
    /\ EffIsOpen
    /\ eff_edits < MaxEdits
    /\ eff_form' = [eff_form EXCEPT ![axis][field] = value]
    /\ eff_edits' = eff_edits + 1
    /\ eff_op' = [op |-> "edit", axis |-> axis]
    /\ UNCHANGED <<eff_data, eff_text, eff_combos, eff_disk, projVars, instVars, wasVars, dlgVars, fnVars>>

\* The user checks one of the two radio buttons of a group.
SetMode == \E a \in AxisNames, m \in {"list", "range"} : UserEdit(a, "mode", m)

TypeList == \E a \in AxisNames, t \in ListTexts : UserEdit(a, "list_text", t)

TypeStart == \E a \in AxisNames, t \in RangeTexts : UserEdit(a, "start_text", t)

TypeStop == \E a \in AxisNames, t \in RangeTexts : UserEdit(a, "stop_text", t)

SetPoints == \E a \in AxisNames, n \in PointsChoices : UserEdit(a, "points", n)

\* What the Apply button leaves, from the document after the round trip
\* through the text edit
Synced(synced, stored) ==
    /\ eff_data' = synced
    /\ eff_form' = populate_params_from_json(eff_form, synced)
    /\ eff_combos' = IF PopulateRaises(synced) THEN eff_combos
                      ELSE SelectVariables(eff_combos, synced)
    /\ eff_op' = [op |-> "apply", stored |-> stored]

Applied(values) ==
    Synced(JsonRoundTrip(StoreAxes(eff_data, values)),
           [a \in AxisNames |-> StoresValue(eff_data, values[a])])

\* The Apply button: apply_params_to_json, whose setText makes the text edit
\* emit textChanged, which runs sync_params_from_json on the new text.
ApplyParams ==
    /\ EffIsOpen
    /\ Applied(AxisValues(eff_form))
    /\ eff_text' = "json"
    /\ UNCHANGED <<eff_edits, eff_disk, projVars, instVars, wasVars, dlgVars, fnVars>>

\* The user replaces the raw JSON by the text of another document:
\* sync_params_from_json
RawEdit ==
    /\ EffIsOpen
    /\ eff_edits < MaxEdits
    /\ \E doc \in EffFiles :
           /\ eff_data' = doc
           /\ eff_form' = populate_params_from_json(eff_form, doc)
           /\ eff_combos' = IF PopulateRaises(doc) THEN eff_combos
                             ELSE SelectVariables(eff_combos, doc)
    /\ eff_text' = "json"
    /\ eff_edits' = eff_edits + 1
    /\ eff_op' = [op |-> "sync"]
    /\ UNCHANGED <<eff_disk, projVars, instVars, wasVars, dlgVars, fnVars>>

EffNext ==
    SetMode \/ TypeList \/ TypeStart \/ TypeStop \/ SetPoints \/ ApplyParams \/ RawEdit

SpecEff == EffInit /\ [][EffNext]_vars

(***************************************************************************)
(* Claims about the sweep editor                                           *)
(***************************************************************************)
\* Equality of two JSON numbers by value (1 == 1.0)
C6_SameNumber(x, y) ==
    LET dec(v) == IF v.kind = "int" THEN Dec(v.v, 0) ELSE v
    IN dec(x) = dec(y)

C6_SameSpec(v, w) ==
    \/ /\ v.t = "list" /\ w.t = "list"
       /\ Len(v.items) = Len(w.items)
       /\ \A i \in 1..Len(v.items) : C6_SameNumber(v.items[i], w.items[i])
    \/ /\ v.t = "dict" /\ w.t = "dict"
       /\ DOMAIN v.d = DOMAIN w.d
       /\ \A k \in DOMAIN v.d : C6_SameNumber(v.d[k], w.d[k])

\* A valid SweepSpec: a list of numbers, or {start, stop, points} with an
\* integer 2 <= points <= 1000
C6_ValidSweepSpec(v) ==
    \/ v.t = "list"
    \/ /\ v.t = "dict"
       /\ DOMAIN v.d = {"start", "stop", "points"}
       /\ v.d.points.kind = "int"
       /\ v.d.points.v >= 2 /\ v.d.points.v <= 1000

\* C6: once Apply has stored the form and the document has been read back
\* into the form, applying the form again gives, for each axis whose valid
\* sweep this Apply stored, the same list or the same {start, stop, points};
\* and so it does for an axis whose valid sweep was in the document before,
\* when the reading back went through without raising.
C6_SweepRoundTrip ==
    eff_op # Idle /\ eff_op.op = "apply" =>
        \A a \in AxisNames :
            ( /\ C6_ValidSweepSpec(SweepOf(eff_data, a))
              /\ eff_op.stored[a] \/ ~PopulateRaises(eff_data) )
            => C6_SameSpec(AxisValue(eff_form[a]), SweepOf(eff_data, a))

\* C6 witness: Apply stored a list with a fraction and a negative value on
\* one axis and a range on the other.
C6_Witness ==
    /\ eff_op # Idle /\ eff_op.op = "apply"
    /\ eff_op.stored["Vin loop"] /\ eff_op.stored["Iout loop"]
    /\ SweepOf(eff_data, "Vin loop") = JList(<<Dec(15, -1), Dec(-5, 0)>>)
    /\ SweepOf(eff_data, "Iout loop") = RangeValue(Dec(5, -1), Dec(5, 0), PyInt(10))

\* The input of an axis is malformed: in list mode a token that is not blank
\* and not a number, in range mode a start or a stop that is not a number.
C7_Malformed(form) ==
    \/ /\ form.mode = "list"
       /\ \E i \in 1..Len(SplitComma(form.list_text)) :
              LET tok == Strip(SplitComma(form.list_text)[i])
              IN tok # <<>> /\ ParseFloat(tok) = NoneVal
    \/ /\ form.mode = "range"
       /\ ParseFloat(form.start_text) = NoneVal \/ ParseFloat(form.stop_text) = NoneVal

\* C7: when Apply runs with a malformed input on an axis, the value stored
\* for that axis stays as it was (absent stays absent) and the handler
\* completes; the other axis, if its input is well formed and the document
\* has a data section, receives its new value.
C7_MalformedKeepsPrevious ==
    [][ eff_op' # Idle /\ eff_op'.op = "apply" =>
          \A a \in AxisNames :
              C7_Malformed(eff_form[a]) =>
                  /\ SweepOf(eff_data', a) = SweepOf(eff_data, a)
                  /\ ~eff_op'.stored[a]
                  /\ \A b \in AxisNames \ {a} :
                         ~C7_Malformed(eff_form[b]) /\ "data" \in DOMAIN eff_data =>
                             /\ eff_op'.stored[b]
                             /\ SweepOf(eff_data', b) = AxisValue(eff_form[b]) ]_vars

\* C7 witness: Apply left the list of the Vin axis alone because its text was
\* malformed, and stored a new range for the Iout axis.
C7_Witness ==
    /\ eff_op # Idle /\ eff_op.op = "apply"
    /\ ~eff_op.stored["Vin loop"] /\ eff_op.stored["Iout loop"]
    /\ SweepOf(eff_data, "Vin loop") = JList(<<Dec(15, -1), Dec(-5, -2)>>)
    /\ SweepOf(eff_data, "Iout loop") = RangeValue(Dec(1, 0), Dec(5, 0), PyInt(10))

\* C26 (as stated): Apply after the user edited the widgets of one axis only
\* leaves the entry of the other axis as it was: an absent axis stays absent,
\* a present one keeps its list or its {start, stop, points} (numbers
\* compared by value).
\* apply_params_to_json stores both axes from the widgets each time: an
\* untouched group in list mode with an empty text stores [].
C26_Same(v, w) == v = w \/ C6_SameSpec(v, w)

C26_OtherAxisKept ==
    [][ ( /\ eff_op.op = "edit" /\ eff_edits = 1
          /\ eff_op'.op = "apply" )
        => \A b \in AxisNames \ {eff_op.axis} :
               C26_Same(SweepOf(eff_data', b), SweepOf(eff_data, b)) ]_vars



(***************************************************************************)
(* InstFileDialog: the instrument editor of a .inst document               *)
(*                                                                         *)
(* QListWidgetItem.setData turns a dict with string keys into a            *)
(* QVariantMap, and QListWidgetItem.data builds a new dict from it on      *)
(* every call.  An item therefore never holds a dict of the document, and  *)
(* what a handler writes into the dict that data() returned is lost with   *)
(* that dict.                                                              *)
(***************************************************************************)
MaxInstSteps == 4    \* user actions in the instrument editor
MaxInstances == 3    \* instances of the instrument document

\* currentData() of a combo box without items
NoData == "None"

\* The keys of type_map, in the order of the type combo
TypeKeys == <<"power_supplies", "dataloggers", "oscilloscopes", "electronic_loads">>

\* A small instrument library: one series for two of the classes.
LibSeries(type_key) ==
    CASE type_key = "power_supplies" -> <<"S1">>
      [] type_key = "dataloggers" -> <<"D1">>
      [] OTHER -> <<>>

SeriesModels(series_id) ==
    CASE series_id = "S1" -> <<"M1", "M2">>
      [] series_id = "D1" -> <<"L1">>

\* capabilities.channels given as an integer
CapInt(n) == [t |-> "int", v |-> n]

\* capabilities of a model: a list of channel descriptors, number_of_channels,
\* channels as an integer
LibCaps(model_id) ==
    CASE model_id = "M1" -> [channels |-> JList(<< [label |-> <<"O", "u", "t">>] >>)]
      [] model_id = "M2" -> [number_of_channels |-> 2]
      [] model_id = "L1" -> [channels |-> CapInt(1)]

\* interface.supported_connection_types of a model
ModelConnTypes(model_id) ==
    CASE model_id = "M1" -> <<"USB", "LAN">>
      [] model_id = "M2" -> <<"LAN">>
      [] model_id = "L1" -> <<"USB">>

\* f"Ch{i+1}"
ChLabel(i) == <<"C", "h">> \o IntDigits(i + 1)

\* n_channels, lines 1342-1352
ChannelCount(caps) ==
    IF "channels" \in DOMAIN caps /\ caps.channels.t = "list" THEN Len(caps.channels.items)
    ELSE IF "channels" \in DOMAIN caps /\ caps.channels.t = "int" THEN caps.channels.v
    ELSE IF "number_of_channels" \in DOMAIN caps THEN caps.number_of_channels
    ELSE 0

\* The number of channels of a model of the library
ModelChannels(model_id) == ChannelCount(LibCaps(model_id))

\* Labels numbered as the indexes are, from 0
ChannelLabelsFromZero(caps) == [i \in 1..ChannelCount(caps) |-> ChLabel(i - 2)]

\* channel_labels, lines 1342-1352
ChannelLabels(caps) ==
    IF "channels" \in DOMAIN caps /\ caps.channels.t = "list"
    THEN [i \in 1..Len(caps.channels.items) |->
             Get(caps.channels.items[i], "label", ChLabel(i - 1))]
    ELSE [i \in 1..ChannelCount(caps) |-> ChLabel(i - 1)]

\* The channel dict update_channels_widget makes for a channel that is not
\* configured
Placeholder(type_key, ch_idx) ==
    IF type_key = "dataloggers"
    THEN [index |-> ch_idx, used |-> FALSE, measured_variable |-> <<>>,
          attenuation |-> Dec(1, 0), measure_type |-> "voltage"]
    ELSE [index |-> ch_idx, used |-> FALSE, variable |-> <<>>, attenuation |-> Dec(1, 0)]

\* The first instance with the given name (0: none)
FirstMatch(insts, name) ==
    IF \E i \in 1..Len(insts) : insts[i].instance_name = name
    THEN CHOOSE i \in 1..Len(insts) :
             /\ insts[i].instance_name = name
             /\ \A j \in 1..(i - 1) : insts[j].instance_name # name
    ELSE 0

\* A search that takes the first channel whatever its index
FirstChannelAny(used_channels, ch_idx) == IF used_channels = <<>> THEN 0 ELSE 1

\* next((c for c in used_channels if c.get('index', -1) == ch_idx), None),
\* as a position in used_channels (0: None)
FirstChannel(used_channels, ch_idx) ==
    IF \E p \in 1..Len(used_channels) : Get(used_channels[p], "index", -1) = ch_idx
    THEN CHOOSE p \in 1..Len(used_channels) :
             /\ Get(used_channels[p], "index", -1) = ch_idx
             /\ \A q \in 1..(p - 1) : Get(used_channels[q], "index", -1) # ch_idx
    ELSE 0

\* ch_conf of the loop of update_channels_widget: the channel of the instance
\* found for ch_idx, or a new placeholder
ChConf(used_channels, type_key, ch_idx, p) ==
    IF p # 0 THEN used_channels[p] ELSE Placeholder(type_key, ch_idx)

\* The loop of update_channels_widget: the dict handed to item.setData for
\* each ch_idx in range(n_channels)
BuildItems(used_channels, type_key, n_channels) ==
    [i \in 1..n_channels |->
        ChConf(used_channels, type_key, i - 1, FirstChannel(used_channels, i - 1))]

\* The mark of a disabled channel in the text of its item
DisPrefix == <<"[", "D", "I", "S", "]", " ">>

\* label.startswith(prefix)
StartsWith(label, prefix) ==
    Len(label) >= Len(prefix) /\ SubSeq(label, 1, Len(prefix)) = prefix

\* The text of the item, lines 1374-1380
ItemLabel(type_key, ch_conf, base) ==
    LET shown == IF Get(ch_conf, "used", FALSE) THEN base ELSE DisPrefix \o base
    IN IF type_key = "dataloggers"
       THEN shown \o <<" ", "(">> \o Get(ch_conf, "measured_variable", <<>>) \o <<")">>
       ELSE IF type_key \in {"power_supplies", "electronic_loads"}
       THEN shown \o <<" ", "(">> \o Get(ch_conf, "variable", <<>>) \o <<")">>
       ELSE shown

\* The items of the channel list for the dicts built: text and data of each
LabelledItems(type_key, labels, built) ==
    [i \in 1..Len(built) |->
        [label |-> ItemLabel(type_key, built[i], labels[i]), data |-> built[i]]]

\* The items update_channels_widget adds for a model with the capabilities
\* caps and an instance with the given channels
ResolveChannels(caps, type_key, channels) ==
    LabelledItems(type_key, ChannelLabels(caps),
                  BuildItems(channels, type_key, ChannelCount(caps)))

\* update_channels_widget: the list is cleared and left empty without a
\* series or a model; existing is the first instance named as the form is
update_channels_widget(form, insts) ==
    IF form.series = NoData \/ form.model = NoData
    THEN <<>>
    ELSE LET existing == FirstMatch(insts, Strip(form.instance_name))
         IN ResolveChannels(LibCaps(form.model), form.type_key,
                            IF existing = 0 THEN <<>> ELSE insts[existing].channels)

\* update_connection_types: the first connection type of the model is current
FormWithModel(form, model_id) ==
    [form EXCEPT !.model = model_id,
                 !.conn_type = IF model_id = NoData THEN NoData
                               ELSE ModelConnTypes(model_id)[1]]

\* update_series_combo and update_model_combo: the first series of the class
\* and its first model are current, or nothing when the class has no series
FormWithType(form, type_key) ==
    LET series == IF LibSeries(type_key) = <<>> THEN NoData ELSE LibSeries(type_key)[1]
        model == IF series = NoData THEN NoData ELSE SeriesModels(series)[1]
    IN FormWithModel([form EXCEPT !.type_key = type_key, !.series = series], model)


\* ---- ChannelConfigDialog ----
\* The items of the measure type combo
MeasureTypes == <<"voltage", "current", "temperature", "resistance">>

\* str(ch.get('attenuation', '1'))
AttenuationText(ch) ==
    IF "attenuation" \notin DOMAIN ch THEN <<"1">>
    ELSE IF ch.attenuation.kind = "str" THEN ch.attenuation.s
    ELSE PyStr(ch.attenuation)

\* mt_combo.setCurrentText(text): the combo stays on its first item when the
\* text is none of its items
SetCurrentText(items, text) == IF text \in Range(items) THEN text ELSE items[1]

\* __init__: one group of widgets per channel of the instrument
DialogWidgets(type_key, channels) ==
    [k \in 1..Len(channels) |->
        [used |-> Get(channels[k], "used", TRUE),
         variable |-> IF type_key = "dataloggers"
                      THEN Get(channels[k], "measured_variable", <<>>)
                      ELSE Get(channels[k], "variable", <<>>),
         attenuation |-> AttenuationText(channels[k]),
         measure_type |-> IF type_key = "dataloggers"
                          THEN SetCurrentText(MeasureTypes,
                                              Get(channels[k], "measure_type", "voltage"))
                          ELSE NoData]]

\* float(text.replace(',', '.')), 1.0 when that raises
OrOne(x) == IF Raised(x) THEN Dec(1, 0) ELSE x

AttenuationOf(text) == OrOne(ParseFloat(ReplaceChar(text, ",", ".")))

\* The dict get_channels makes for the widgets at position idx
DialogChannel(type_key, idx, w) ==
    IF type_key = "dataloggers"
    THEN [index |-> idx, used |-> TRUE, measured_variable |-> Strip(w.variable),
          measure_type |-> w.measure_type, attenuation |-> AttenuationOf(w.attenuation)]
    ELSE [index |-> idx, used |-> TRUE, variable |-> Strip(w.variable),
          attenuation |-> AttenuationOf(w.attenuation)]

\* get_channels: the checked channels, numbered by their position
RECURSIVE get_channels(_, _, _)
get_channels(type_key, widgets, n) ==
    IF n = 0 THEN <<>>
    ELSE LET before == get_channels(type_key, widgets, n - 1)
         IN IF widgets[n].used
            THEN Append(before, DialogChannel(type_key, n - 1, widgets[n]))
            ELSE before

\* What the user changes in the dialog before pressing OK
VarTexts == { <<" ", "W">> }
AttTexts == { <<"1", ",", "5", "e", "1">>, <<"x">>, <<"-", "1">> }

DialogEdits(n) ==
    {[kind |-> "none"]}
    \cup {[kind |-> "uncheck", pos |-> k] : k \in 1..n}
    \cup {[kind |-> "variable", pos |-> k, text |-> t] : k \in 1..n, t \in VarTexts}
    \cup {[kind |-> "attenuation", pos |-> k, text |-> t] : k \in 1..n, t \in AttTexts}

EditWidgets(widgets, edit) ==
    CASE edit.kind = "none" -> widgets
      [] edit.kind = "uncheck" -> [widgets EXCEPT ![edit.pos].used = FALSE]
      [] edit.kind = "variable" -> [widgets EXCEPT ![edit.pos].variable = edit.text]
      [] edit.kind = "attenuation" -> [widgets EXCEPT ![edit.pos].attenuation = edit.text]

\* ---- the documents and the texts of the exploration ----
\* A power supply with the second channel of its model configured
InstanceA ==
    [instance_name |-> <<"A">>, instrument_type |-> "power_supplies", series |-> "S1",
     model |-> "M2", connection_type |-> "LAN", visa_address |-> <<>>,
     channels |-> << [index |-> 1, used |-> TRUE, variable |-> <<"V">>,
                      attenuation |-> Dec(1, 0)] >>]

\* A datalogger with its channel configured
InstanceB ==
    [instance_name |-> <<"B">>, instrument_type |-> "dataloggers", series |-> "D1",
     model |-> "L1", connection_type |-> "USB", visa_address |-> <<>>,
     channels |-> << [index |-> 0, used |-> TRUE, measured_variable |-> <<"I">>,
                      attenuation |-> Dec(1, 0), measure_type |-> "voltage"] >>]

\* A power supply with both channels of its model configured
InstanceC ==
    [instance_name |-> <<"C">>, instrument_type |-> "power_supplies", series |-> "S1",
     model |-> "M2", connection_type |-> "LAN", visa_address |-> <<>>,
     channels |-> << [index |-> 0, used |-> TRUE, variable |-> <<"W">>,
                      attenuation |-> Dec(1, 0)],
                     [index |-> 1, used |-> TRUE, variable |-> <<"V">>,
                      attenuation |-> Dec(1, 0)] >>]

\* The document json.dump writes into the .inst file
InstDoc(insts) == [instruments |-> insts]

\* The .inst file as it is read: a file that holds no JSON reads as a
\* document without instruments
LoadInst(file) == IF file = Truncated THEN InstDoc(<<>>) ELSE file

\* The instruments a reader finds in the .inst file
InstOnDisk == LoadInst(inst_disk).instruments

\* How writing the file ends: well, with open() raising, with json.dump raising
WriteFailures == {"none", "open", "write"}

\* The instruments of the .inst file being opened: none (a new project), or
\* instruments with configured channels
InstFiles ==
    { <<>>, <<InstanceA>>, <<InstanceA, InstanceB>>, <<InstanceA, InstanceB, InstanceC>> }

\* Texts typed into the instance name field
NameTexts == { <<"A">>, <<" ", "A">>, <<"B">>, <<"C">> }

\* Addresses entered in the VISA address dialog
VisaTexts == { <<"v", " ">> }

\* __init__: the form with the first class current
InitialForm ==
    FormWithType([instance_name |-> <<>>, type_key |-> NoData, series |-> NoData,
                  model |-> NoData, conn_type |-> NoData, visa_address |-> <<>>],
                 TypeKeys[1])

InstInit ==
    /\ \E file \in InstFiles :
           /\ inst_data = file
           /\ inst_widget = update_channels_widget(InitialForm, file)
           /\ inst_disk = InstDoc(file)
    /\ inst_form = InitialForm
    /\ inst_selected = -1
    /\ inst_steps = 0
    /\ inst_op = [op |-> "open"]
    /\ ProjIdle
    /\ EffIdle
    /\ WasIdle
    /\ FnIdle /\ DlgIdle
\* A user action on the open dialog
UserStep ==
    /\ inst_steps < MaxInstSteps
    /\ inst_op.op \notin {"save_changes", "closed"}
    /\ inst_steps' = inst_steps + 1
    /\ UNCHANGED <<projVars, effVars, wasVars, dlgVars, fnVars>>

TypeName ==
    \E t \in NameTexts :
        /\ UserStep
        /\ inst_form' = [inst_form EXCEPT !.instance_name = t]
        /\ inst_op' = [op |-> "type_name"]
        /\ UNCHANGED <<inst_data, inst_widget, inst_selected, inst_disk>>

\* The user picks another class: update_series_combo and the handlers the
\* combo boxes call in turn
SelectType ==
    \E k \in 1..Len(TypeKeys) :
        /\ UserStep
        /\ TypeKeys[k] # inst_form.type_key
        /\ inst_form' = FormWithType(inst_form, TypeKeys[k])
        /\ inst_widget' = update_channels_widget(inst_form', inst_data)
        /\ inst_op' = [op |-> "select_type"]
        /\ UNCHANGED <<inst_data, inst_selected, inst_disk>>

\* The user picks another model: update_connection_types and
\* update_channels_widget
SelectModel ==
    /\ inst_form.series # NoData
    /\ \E m \in Range(SeriesModels(inst_form.series)) \ {inst_form.model} :
           /\ UserStep
           /\ inst_form' = FormWithModel(inst_form, m)
           /\ inst_widget' = update_channels_widget(inst_form', inst_data)
           /\ inst_op' = [op |-> "select_model"]
           /\ UNCHANGED <<inst_data, inst_selected, inst_disk>>

SelectConn ==
    /\ inst_form.model # NoData
    /\ \E c \in Range(ModelConnTypes(inst_form.model)) \ {inst_form.conn_type} :
           /\ UserStep
           /\ inst_form' = [inst_form EXCEPT !.conn_type = c]
           /\ inst_op' = [op |-> "select_conn"]
           /\ UNCHANGED <<inst_data, inst_widget, inst_selected, inst_disk>>

\* open_visa_address_dialog, accepted
ComposeVisa ==
    \E addr \in VisaTexts :
        /\ UserStep
        /\ inst_form' = [inst_form EXCEPT !.visa_address = addr]
        /\ inst_op' = [op |-> "compose_visa"]
        /\ UNCHANGED <<inst_data, inst_widget, inst_selected, inst_disk>>

\* The loop of enable_all_channels: ch_conf['used'] = True is written into
\* the dict data() built for this call, the data of the item stays; a text
\* that starts with '[DIS] ' loses it
EnabledLabels(items) ==
    [i \in 1..Len(items) |->
        [items[i] EXCEPT !.label = IF StartsWith(@, DisPrefix)
                                   THEN SubSeq(@, Len(DisPrefix) + 1, Len(@))
                                   ELSE @]]

\* The loop of disable_all_channels: the data of the item stays; a text that
\* does not start with '[DIS] ' gets it
DisabledLabels(items) ==
    [i \in 1..Len(items) |->
        [items[i] EXCEPT !.label = IF StartsWith(@, DisPrefix) THEN @
                                   ELSE DisPrefix \o @]]

enable_all_channels ==
    /\ UserStep
    /\ inst_widget' = EnabledLabels(inst_widget)
    /\ inst_op' = [op |-> "enable_all"]
    /\ UNCHANGED <<inst_data, inst_form, inst_selected, inst_disk>>

disable_all_channels ==
    /\ UserStep
    /\ inst_widget' = DisabledLabels(inst_widget)
    /\ inst_op' = [op |-> "disable_all"]
    /\ UNCHANGED <<inst_data, inst_form, inst_selected, inst_disk>>

\* A loop that takes the dict of every item, enabled or not
CollectAll(items) == [k \in 1..Len(items) |-> items[k].data]

\* The loop of add_instrument_to_inst over the items of the channel list:
\* the dicts item.data returns whose used flag is set
CollectUsed(items) ==
    SelectSeq([k \in 1..Len(items) |-> items[k].data],
              LAMBDA ch_conf : Get(ch_conf, "used", TRUE))

\* A search that never finds the name: every Add would append
FindNothing(insts, name) == 0

\* The instance add_instrument_to_inst updates (0: none, a new one is appended)
FindForUpdate(insts, name) == FirstMatch(insts, name)

\* A save that leaves the file as it is
SaveInstFileNever(insts, failure) == inst_disk' = inst_disk

\* save_inst_file: json.dump of self.inst_data into the file opened with 'w'.
\* When open() raises the file stays as it was, when json.dump raises after
\* open() truncated the file it is left cut short; both show a warning
save_inst_file(insts, failure) ==
    inst_disk' = CASE failure = "open" -> inst_disk
                   [] failure = "write" -> Truncated
                   [] OTHER -> InstDoc(insts)

\* The Add button: add_instrument_to_inst, with its refresh of the list, its
\* save of the file and its rebuild of the channel list
add_instrument_to_inst ==
    LET instance_name == Strip(inst_form.instance_name)
        visa_addr == Strip(inst_form.visa_address)
        channels == CollectUsed(inst_widget)
        found == FindForUpdate(inst_data, instance_name)
        insts == IF found # 0
                 THEN [inst_data EXCEPT ![found] =
                          [@ EXCEPT !.instrument_type = inst_form.type_key,
                                    !.series = inst_form.series,
                                    !.model = inst_form.model,
                                    !.connection_type = inst_form.conn_type,
                                    !.visa_address = visa_addr,
                                    !.channels = channels]]
                 ELSE Append(inst_data,
                             [instance_name |-> instance_name,
                              instrument_type |-> inst_form.type_key,
                              series |-> inst_form.series,
                              model |-> inst_form.model,
                              connection_type |-> inst_form.conn_type,
                              visa_address |-> visa_addr,
                              channels |-> channels])
    IN /\ UserStep
       /\ found # 0 \/ Len(inst_data) < MaxInstances
       /\ inst_data' = insts
       /\ inst_selected' = -1
       /\ \E failure \in WriteFailures :
              /\ save_inst_file(insts, failure)
              /\ inst_op' = [op |-> "add", replaced |-> found # 0,
                              written |-> failure = "none"]
       /\ inst_widget' = update_channels_widget(inst_form, insts)
       /\ UNCHANGED inst_form

\* The user clicks a row of the list of instruments.
SelectRow ==
    \E row \in 0..(Len(inst_data) - 1) :
        /\ UserStep
        /\ row # inst_selected
        /\ inst_selected' = row
        /\ inst_op' = [op |-> "select_row"]
        /\ UNCHANGED <<inst_data, inst_widget, inst_form, inst_disk>>

\* A removal that takes the last instance whatever the row
RemoveLast(lst, row) ==
    IF 0 <= row /\ row < Len(lst) THEN SubSeq(lst, 1, Len(lst) - 1) ELSE lst

\* del lst[row], when the row is one of the list
RemoveAt(lst, row) ==
    IF 0 <= row /\ row < Len(lst)
    THEN SubSeq(lst, 1, row) \o SubSeq(lst, row + 2, Len(lst))
    ELSE lst

\* The Remove button: remove_selected_instrument
remove_selected_instrument ==
    /\ UserStep
    /\ IF inst_selected < 0
       THEN /\ inst_op' = [op |-> "remove", row |-> inst_selected, written |-> FALSE]
            /\ UNCHANGED <<inst_data, inst_selected, inst_disk>>
       ELSE LET insts == RemoveAt(inst_data, inst_selected)
            IN /\ inst_data' = insts
               /\ inst_selected' = -1
               /\ \E failure \in WriteFailures :
                      /\ save_inst_file(insts, failure)
                      /\ inst_op' = [op |-> "remove", row |-> inst_selected,
                                      written |-> failure = "none"]
    /\ UNCHANGED <<inst_widget, inst_form>>

\* The dialog accepted: inst['channels'] = dlg.get_channels() is written
\* into the dict item.data returned, not into the document; then
\* refresh_instruments_list and save_inst_file
DialogAccepted(row, edit, new) ==
    /\ UserStep
    /\ \E failure \in WriteFailures :
           /\ save_inst_file(inst_data, failure)
           /\ inst_op' = [op |-> "edit_channels", row |-> row,
                           edit |-> edit.kind, returned |-> new,
                           written |-> failure = "none"]
    /\ inst_selected' = -1
    /\ UNCHANGED <<inst_data, inst_widget, inst_form>>

\* The dialog on the widgets of a row: one change, then OK
DialogOn(row, type_key, widgets) ==
    \E edit \in DialogEdits(Len(widgets)) :
        DialogAccepted(row, edit,
                       get_channels(type_key, EditWidgets(widgets, edit), Len(widgets)))

\* A double click on a row: edit_instrument_channels with the dialog accepted
\* after one change.  inst is the dict item.data builds from the instance as
\* refresh_instruments_list handed it to the item.
edit_instrument_channels ==
    \E row \in 0..(Len(inst_data) - 1) :
        DialogOn(row, inst_data[row + 1].instrument_type,
                 DialogWidgets(inst_data[row + 1].instrument_type,
                               inst_data[row + 1].channels))

\* A double click on a row, the dialog cancelled
cancel_channel_dialog ==
    \E row \in 0..(Len(inst_data) - 1) :
        /\ UserStep
        /\ inst_selected' = row
        /\ inst_op' = [op |-> "cancel_channels", row |-> row]
        /\ UNCHANGED <<inst_data, inst_widget, inst_form, inst_disk>>

\* The Save button: save_changes writes the document and closes the dialog.
\* When open() raises the file stays as it was, when json.dump raises the
\* file is left cut short; either way a warning is shown and the dialog
\* stays open
save_changes ==
    /\ UserStep
    /\ \E failure \in WriteFailures :
           /\ save_inst_file(inst_data, failure)
           /\ inst_op' = IF failure = "none" THEN [op |-> "save_changes"]
                         ELSE [op |-> "save_failed", reported |-> TRUE]
    /\ UNCHANGED <<inst_data, inst_widget, inst_form, inst_selected>>

InstNext ==
    \/ TypeName \/ SelectType \/ SelectModel \/ SelectConn \/ ComposeVisa
    \/ enable_all_channels \/ disable_all_channels
    \/ add_instrument_to_inst
    \/ SelectRow \/ remove_selected_instrument
    \/ edit_instrument_channels \/ cancel_channel_dialog
    \/ save_changes

SpecInst == InstInit /\ [][InstNext]_vars

(***************************************************************************)
(* Claims about the instrument editor                                      *)
(***************************************************************************)
C1_Names(insts) == [i \in 1..Len(insts) |-> insts[i].instance_name]

\* The channels the channel list holds enabled
C1_EnabledChannels ==
    SelectSeq([k \in 1..Len(inst_widget) |-> inst_widget[k].data],
              LAMBDA ch : ch.used)

\* C1: no two instances ever share an instance_name, and an Add whose name
\* is already in the document keeps the number of instances and leaves that
\* instance with the class, series, model, connection type, VISA address
\* and channels of the form.
C1_AddOrReplace ==
    [][ /\ NoDup(C1_Names(inst_data'))
        /\ inst_op'.op = "add" /\ inst_steps' # inst_steps =>
             \A k \in 1..Len(inst_data) :
                 inst_data[k].instance_name = Strip(inst_form.instance_name) =>
                     /\ Len(inst_data') = Len(inst_data)
                     /\ inst_data'[k] =
                            [instance_name |-> Strip(inst_form.instance_name),
                             instrument_type |-> inst_form.type_key,
                             series |-> inst_form.series,
                             model |-> inst_form.model,
                             connection_type |-> inst_form.conn_type,
                             visa_address |-> Strip(inst_form.visa_address),
                             channels |-> C1_EnabledChannels] ]_vars

\* C1 witness: Add replaced instance A by what the form held.
C1_Witness ==
    /\ inst_op # Idle /\ inst_op.op = "add" /\ inst_op.replaced
    /\ Len(inst_data) = 2
    /\ inst_data[1].instance_name = <<"A">>
    /\ inst_data[1].model = "M1"
    /\ inst_data[1].visa_address = <<"v">>

\* C9: Remove with a row selected deletes that instance and keeps the others
\* as they were and in their order; without a selection the document in
\* memory and the file stay as they were.
C9_RemoveExactlySelected ==
    [][ inst_op'.op = "remove" /\ inst_steps' # inst_steps =>
          LET before == inst_data
              after == inst_data'
              row == inst_selected
          IN IF 0 <= row /\ row < Len(before)
             THEN /\ Len(after) = Len(before) - 1
                  /\ \A i \in 1..Len(after) :
                         after[i] = IF i <= row THEN before[i] ELSE before[i + 1]
             ELSE /\ after = before
                  /\ inst_disk' = inst_disk ]_vars

\* C9 witness: the second of the three instances A, B, C was removed; A and
\* C are left as they were, in memory and in the file, A before C.
C9_Witness ==
    /\ inst_op # Idle /\ inst_op.op = "remove" /\ inst_op.row = 1 /\ inst_op.written
    /\ inst_data = <<InstanceA, InstanceC>>
    /\ InstOnDisk = <<InstanceA, InstanceC>>

\* C10: every channel of every instance, in memory and in the .inst file,
\* has used = true.
C10_OnlyUsedChannelsStored ==
    inst_op # Idle =>
        /\ \A i \in 1..Len(inst_data) : \A j \in 1..Len(inst_data[i].channels) :
               inst_data[i].channels[j].used
        /\ \A i \in 1..Len(InstOnDisk) : \A j \in 1..Len(InstOnDisk[i].channels) :
               InstOnDisk[i].channels[j].used

\* C10 witness: 'disable all' ran on a channel list that shows a stored
\* channel of the named instance; its item is marked '[DIS] ' and the channel
\* is in the document and in the file, enabled.
C10_Witness ==
    /\ inst_op # Idle /\ inst_op.op = "disable_all"
    /\ \E k \in 1..Len(inst_widget) :
           /\ StartsWith(inst_widget[k].label, DisPrefix)
           /\ inst_widget[k].data.used
           /\ \E i \in 1..Len(inst_data) :
                  inst_widget[k].data \in Range(inst_data[i].channels)
           /\ \E i \in 1..Len(InstOnDisk) :
                  inst_widget[k].data \in Range(InstOnDisk[i].channels)

\* The index values of a list of channel dicts
C11_Indexes(channels) == [j \in 1..Len(channels) |-> channels[j].index]

\* The channels of an instance fit its model: pairwise distinct index values
\* within [0, channel_count); an instance without a model has no channels.
C11_FitsModel(inst) ==
    /\ NoDup(C11_Indexes(inst.channels))
    /\ IF inst.model = NoData THEN inst.channels = <<>>
       ELSE \A j \in 1..Len(inst.channels) :
                0 <= inst.channels[j].index
                /\ inst.channels[j].index < ModelChannels(inst.model)

\* C11: after any sequence of Add (new or replacing) and channel dialog
\* edits, the channels of every instance, in memory and in the .inst file,
\* have pairwise distinct index values within [0, channel_count) of the
\* instance's model.
C11_ChannelIndexesFitModel ==
    inst_op # Idle =>
        /\ \A i \in 1..Len(inst_data) : C11_FitsModel(inst_data[i])
        /\ \A i \in 1..Len(InstOnDisk) : C11_FitsModel(InstOnDisk[i])

\* C11 witness: instance C, stored with the two-channel model M2 and its
\* channels 0 and 1, was added again with the one-channel model M1 and holds
\* channel 0 alone.
C11_Witness ==
    /\ inst_op # Idle /\ inst_op.op = "add" /\ inst_op.replaced
    /\ \E i \in 1..Len(InstOnDisk) :
           /\ InstOnDisk[i].instance_name = <<"C">>
           /\ InstOnDisk[i].model = "M1"
           /\ InstOnDisk[i].channels = <<InstanceC.channels[1]>>
           /\ inst_data[i] = InstOnDisk[i]

\* The instance names a class, a series of the class, a model of the series
\* and a connection type of the model, all of the library.
C17_Resolves(inst) ==
    /\ inst.instrument_type \in Range(TypeKeys)
    /\ IF inst.series \in Range(LibSeries(inst.instrument_type))
       THEN IF inst.model \in Range(SeriesModels(inst.series))
            THEN inst.connection_type \in Range(ModelConnTypes(inst.model))
            ELSE FALSE
       ELSE FALSE

\* C17: every instance of the document, in memory and in the .inst file,
\* has an instrument_type of the four classes, a series and a model that
\* resolve in the library and a connection type the model supports.
C17_StoredInstancesResolve ==
    inst_op # Idle =>
        /\ \A i \in 1..Len(inst_data) : C17_Resolves(inst_data[i])
        /\ \A i \in 1..Len(InstOnDisk) : C17_Resolves(InstOnDisk[i])

\* An attenuation that is a positive number
C20_Positive(ch) == ch.attenuation.kind = "float" /\ IsPositive(ch.attenuation)

\* C20 (as stated): every channel the editor stores has an attenuation that
\* is a positive number: the channels get_channels hands to
\* edit_instrument_channels for the instance, the channels of the document
\* in memory and those of the .inst file.
\* get_channels takes float() of the text whenever it parses: '-1' gives a
\* channel of attenuation -1.0.
C20_AttenuationPositive ==
    inst_op # Idle =>
        /\ inst_op.op = "edit_channels" =>
               \A j \in 1..Len(inst_op.returned) : C20_Positive(inst_op.returned[j])
        /\ \A i \in 1..Len(inst_data) : \A j \in 1..Len(inst_data[i].channels) :
               C20_Positive(inst_data[i].channels[j])
        /\ \A i \in 1..Len(InstOnDisk) : \A j \in 1..Len(InstOnDisk[i].channels) :
               C20_Positive(InstOnDisk[i].channels[j])


\* ======================================================================
\* The editors of one project, one after the other: each is a modal dialog
\* opened by MainWindow.edit_project_file on a file of the project folder.
\* The sweep editor fills its variable selectors from the instrument document
\* of the project when it opens, and writes the selected ones when it saves.
\* ======================================================================

MaxLinkSteps == 3    \* edits and saves over all the dialogs

\* One more edit or save fits
LinkBudget == eff_edits + inst_steps + was_steps < MaxLinkSteps

\* The user can act on the sweep editor, on the instrument editor
InEff == LinkBudget /\ eff_op.op \notin {"closed", "save"}
InInst == LinkBudget /\ inst_op.op \notin {"closed", "save_changes"}
InWas == LinkBudget /\ was_op.op \notin {"closed", "save"}

\* save_changes lines 978-980: the parsed text with the two selected variables
SavedDoc(doc, combos) ==
    [k \in DOMAIN doc \cup {"sweep_variable", "measured_variable"} |->
        IF k = "sweep_variable" THEN CurrentData(combos.sweep)
        ELSE IF k = "measured_variable" THEN CurrentData(combos.measured)
        ELSE doc[k]]

\* The file after save_changes: untouched when the text does not parse or
\* open() raises, cut short when json.dump raises
WrittenFile(file, content, failure) ==
    CASE failure \in {"parse", "open"} -> file
      [] failure = "write" -> Truncated
      [] OTHER -> content

SaveOutcomeAccepting(failure, retry) ==
    [op |-> "save", failure |-> failure, reported |-> failure # "none",
     accepted |-> TRUE, retry |-> retry]

\* save_changes lines 981-985: accept() after the write, the warning otherwise
SaveOutcome(failure, retry) ==
    [op |-> IF failure = "none" THEN "save" ELSE "save_failed", failure |-> failure,
     reported |-> failure # "none", accepted |-> failure = "none", retry |-> retry]

\* EffFileDialog.save_changes
eff_save_changes ==
    /\ EffIsOpen
    /\ eff_edits < MaxLinkSteps
    /\ \E fail \in WriteFailures :
           LET failure == IF eff_text # "json" THEN "parse" ELSE fail
           IN /\ eff_disk' = WrittenFile(eff_disk, SavedDoc(eff_data, eff_combos), failure)
              /\ eff_op' = SaveOutcome(failure, eff_op.op = "save_failed")
    /\ eff_edits' = eff_edits + 1
    /\ UNCHANGED <<eff_data, eff_form, eff_text, eff_combos, projVars, instVars, wasVars, dlgVars, fnVars>>

\* The user picks another item of the sweep variable selector
PickSweepVariable ==
    /\ EffIsOpen
    /\ eff_edits < MaxLinkSteps
    /\ \E i \in 0..(Len(eff_combos.sweep.items) - 1) :
           /\ i # eff_combos.sweep.current
           /\ eff_combos' = [eff_combos EXCEPT !.sweep.current = i]
    /\ eff_edits' = eff_edits + 1
    /\ eff_op' = [op |-> "pick"]
    /\ UNCHANGED <<eff_data, eff_form, eff_text, eff_disk, projVars, instVars, wasVars, dlgVars, fnVars>>

\* The user picks another item of the measured variable selector
PickMeasuredVariable ==
    /\ EffIsOpen
    /\ eff_edits < MaxLinkSteps
    /\ \E i \in 0..(Len(eff_combos.measured.items) - 1) :
           /\ i # eff_combos.measured.current
           /\ eff_combos' = [eff_combos EXCEPT !.measured.current = i]
    /\ eff_edits' = eff_edits + 1
    /\ eff_op' = [op |-> "pick"]
    /\ UNCHANGED <<eff_data, eff_form, eff_text, eff_disk, projVars, instVars, wasVars, dlgVars, fnVars>>

\* The user types text that is not JSON into the raw editor:
\* sync_params_from_json swallows the error of json.loads
RawEditMalformed ==
    /\ EffIsOpen
    /\ eff_edits < MaxLinkSteps
    /\ eff_text' = "malformed"
    /\ eff_edits' = eff_edits + 1
    /\ eff_op' = [op |-> "sync_failed"]
    /\ UNCHANGED <<eff_data, eff_form, eff_combos, eff_disk, projVars, instVars, wasVars, dlgVars, fnVars>>

\* No dialog is open: edit_project_file runs exec_() of one dialog at a time
NoDialog ==
    /\ eff_op.op \in {"closed", "save"}
    /\ inst_op.op \in {"closed", "save_changes"}
    /\ was_op.op \in {"closed", "save"}

\* EffFileDialog.__init__ on a document: the dialog, or no dialog when
\* populate_params_from_json raises and the exception leaves the constructor
Constructed(doc) ==
    IF PopulateRaises(doc)
    THEN /\ eff_data' = Idle
         /\ eff_form' = Idle
         /\ eff_combos' = Idle
         /\ eff_text' = "idle"
         /\ eff_op' = [op |-> "closed", raised |-> TRUE]
    ELSE /\ eff_data' = doc
         /\ eff_form' = populate_params_from_json([a \in AxisNames |-> DefaultAxisForm], doc)
         /\ eff_combos' = SelectVariables(
                setup_dynamic_variable_selectors(LoadInst(inst_disk)), doc)
         /\ eff_text' = "json"
         /\ eff_op' = [op |-> "open"]

\* edit_project_file on the .eff file: EffFileDialog.__init__
OpenEff ==
    /\ NoDialog
    /\ Constructed(LoadEff(eff_disk))
    /\ UNCHANGED <<eff_edits, eff_disk, projVars, instVars, wasVars, dlgVars, fnVars>>

\* The sweep editor closed without saving
CloseEff ==
    /\ EffIsOpen
    /\ eff_data' = Idle
    /\ eff_form' = Idle
    /\ eff_combos' = Idle
    /\ eff_text' = "idle"
    /\ eff_op' = [op |-> "closed"]
    /\ UNCHANGED <<eff_edits, eff_disk, projVars, instVars, wasVars, dlgVars, fnVars>>

\* edit_project_file on the .inst file: InstFileDialog.__init__
OpenInst ==
    /\ NoDialog
    /\ inst_data' = LoadInst(inst_disk).instruments
    /\ inst_widget' = update_channels_widget(InitialForm, inst_data')
    /\ inst_form' = InitialForm
    /\ inst_selected' = -1
    /\ inst_op' = [op |-> "open"]
    /\ UNCHANGED <<inst_disk, inst_steps, projVars, effVars, wasVars, dlgVars, fnVars>>

\* The instrument editor closed without Save
CloseInst ==
    /\ inst_op.op \notin {"closed", "save_changes"}
    /\ inst_data' = Idle
    /\ inst_widget' = Idle
    /\ inst_form' = Idle
    /\ inst_selected' = -1
    /\ inst_op' = [op |-> "closed"]
    /\ UNCHANGED <<inst_disk, inst_steps, projVars, effVars, wasVars, dlgVars, fnVars>>

\* ---- WasFileDialog ----
WasDoc(settings) == [type |-> "oscilloscope_settings", settings |-> settings]

\* __init__ line 1033: the document put in place of a file that cannot be read
DefaultWasDoc == WasDoc(EmptyDict)

\* Documents of the scope editor
WasFiles ==
    { DefaultWasDoc,
      WasDoc([time_per_div |-> Dec(1, -3), volt_per_div |-> Dec(5, -1)]) }

\* __init__ lines 1028-1034: the document of the file, the default one when
\* the file cannot be read
LoadWas(file) == IF file \in {Unreadable, Truncated} THEN DefaultWasDoc ELSE file

\* The two fields as the constructor leaves them
EmptyWasForm == [time |-> <<>>, volt |-> <<>>]

\* Python's truth value of a settings value
Truthy(v) ==
    IF v.kind = "str" THEN v.s # <<>>
    ELSE IF v.kind = "int" THEN v.v # 0
    ELSE ~IsZero(v)

\* str(v) of a settings value
StrOf(v) == IF v.kind = "str" THEN v.s ELSE PyStr(v)

\* WasFileDialog.populate_params_from_json: each field takes str() of its
\* setting when the setting is there and true, and keeps its text otherwise
populate_was_params(form, data) ==
    LET settings == Get(data, "settings", EmptyDict)
        tdiv == Get(settings, "time_per_div", StrVal(<<>>))
        vdiv == Get(settings, "volt_per_div", StrVal(<<>>))
    IN [time |-> IF Truthy(tdiv) THEN StrOf(tdiv) ELSE form.time,
        volt |-> IF Truthy(vdiv) THEN StrOf(vdiv) ELSE form.volt]

\* edit_project_file on the .was file: WasFileDialog.__init__
OpenWas ==
    /\ NoDialog
    /\ was_data' = LoadWas(was_disk)
    /\ was_form' = populate_was_params(EmptyWasForm, LoadWas(was_disk))
    /\ was_op' = [op |-> "open"]
    /\ UNCHANGED <<was_disk, was_steps, projVars, effVars, instVars, dlgVars, fnVars>>

\* The user replaces the raw JSON by the text of another document:
\* sync_params_from_json; a text that is no JSON leaves everything as it is
WasRawEditTo(docs) ==
    /\ was_steps < MaxLinkSteps
    /\ \E doc \in docs :
           /\ was_data' = IF doc = Truncated THEN was_data ELSE doc
           /\ was_form' = IF doc = Truncated THEN was_form
                          ELSE populate_was_params(was_form, doc)
    /\ was_steps' = was_steps + 1
    /\ was_op' = [op |-> "sync"]
    /\ UNCHANGED <<was_disk, projVars, effVars, instVars, dlgVars, fnVars>>

WasRawEdit == WasRawEditTo(WasFiles)

\* WasFileDialog.save_changes: json.dump of self.data, then accept(); the
\* warning when open() or json.dump raises
was_save_changes ==
    /\ was_steps < MaxLinkSteps
    /\ \E fail \in WriteFailures :
           /\ was_disk' = WrittenFile(was_disk, was_data, fail)
           /\ was_op' = SaveOutcome(fail, was_op.op = "save_failed")
    /\ was_steps' = was_steps + 1
    /\ UNCHANGED <<was_data, was_form, projVars, effVars, instVars, dlgVars, fnVars>>

\* The scope editor closed without saving
CloseWas ==
    /\ was_op.op \notin {"closed", "save"}
    /\ was_data' = Idle
    /\ was_form' = Idle
    /\ was_op' = [op |-> "closed"]
    /\ UNCHANGED <<was_disk, was_steps, projVars, effVars, instVars, dlgVars, fnVars>>

\* The instrument documents of the project folder
LinkInstFiles == { <<>>, <<InstanceA, InstanceB>>, <<InstanceC>> }

\* A project folder with its instrument document, one scope settings file as
\* add_project_file writes it and one sweep file, which is the document
\* add_project_file writes or a file that cannot be read; no dialog open
LinkInit ==
    /\ inst_disk \in { InstDoc(insts) : insts \in LinkInstFiles }
    /\ inst_data = Idle
    /\ inst_widget = Idle
    /\ inst_form = Idle
    /\ inst_selected = -1
    /\ inst_steps = 0
    /\ inst_op = [op |-> "closed"]
    /\ eff_disk \in {DefaultEffDoc, Unreadable}
    /\ eff_data = Idle
    /\ eff_form = Idle
    /\ eff_combos = Idle
    /\ eff_text = "idle"
    /\ eff_edits = 0
    /\ eff_op = [op |-> "closed"]
    /\ was_disk = DefaultWasDoc
    /\ was_data = Idle
    /\ was_form = Idle
    /\ was_steps = 0
    /\ was_op = [op |-> "closed"]
    /\ ProjIdle
    /\ FnIdle /\ DlgIdle
LinkNext ==
    \/ OpenEff \/ CloseEff \/ OpenInst \/ CloseInst \/ OpenWas \/ CloseWas
    \/ InWas /\ WasRawEdit
    \/ InWas /\ was_save_changes
    \/ InEff /\ RawEdit
    \/ InEff /\ RawEditMalformed
    \/ InEff /\ ApplyParams
    \/ InEff /\ PickSweepVariable
    \/ InEff /\ PickMeasuredVariable
    \/ InEff /\ eff_save_changes
    \/ InInst /\ TypeName
    \/ InInst /\ SelectType
    \/ InInst /\ SelectModel
    \/ InInst /\ SelectConn
    \/ InInst /\ ComposeVisa
    \/ InInst /\ enable_all_channels
    \/ InInst /\ disable_all_channels
    \/ InInst /\ add_instrument_to_inst
    \/ InInst /\ SelectRow
    \/ InInst /\ remove_selected_instrument
    \/ InInst /\ edit_instrument_channels
    \/ InInst /\ cancel_channel_dialog
    \/ InInst /\ save_changes

SpecLink == LinkInit /\ [][LinkNext]_vars

\* ---- claims on the editors and their files ----

\* C14 (as stated): opening a .eff, .was or .inst file that cannot be read or
\* parsed is reported and aborts the open, no editing session starts on a
\* substituted document, so that no later save overwrites the unreadable file:
\* a sweep file found unreadable stays as it was found.
\* The dialogs put a default document in place of the file without a word
\* (lines 796-802, 1028-1034, 1155-1159) and Save writes it over the file.
C14_UnreadableFileIsKept ==
    [][ eff_disk = Unreadable => eff_disk' = Unreadable ]_vars

\* C15: when save_changes of the sweep, the scope or the instrument editor
\* fails on the write (open() or json.dump raises),
\* the warning is shown, the dialog is not accepted and stays open, and the
\* document, the form and the selectors are the ones before the save; a
\* retried save can then succeed.
C15_FailedSaveKeepsEditor ==
    [][ /\ ( /\ eff_edits' # eff_edits
             /\ eff_op'.op \in {"save", "save_failed"}
             /\ eff_op'.failure \in {"open", "write"} )
           => /\ eff_op'.reported /\ ~eff_op'.accepted
              /\ eff_op'.op = "save_failed"
              /\ eff_data' = eff_data /\ eff_form' = eff_form
              /\ eff_combos' = eff_combos /\ eff_text' = eff_text
        /\ ( /\ was_steps' # was_steps
             /\ was_op'.op \in {"save", "save_failed"}
             /\ was_op'.failure \in {"open", "write"} )
           => /\ was_op'.reported /\ ~was_op'.accepted
              /\ was_op'.op = "save_failed"
              /\ was_data' = was_data
        /\ ( inst_steps' # inst_steps /\ inst_op'.op = "save_failed" )
           => /\ inst_op'.reported
              /\ inst_data' = inst_data
              /\ inst_widget' = inst_widget /\ inst_form' = inst_form ]_vars

\* C15 witness: after an edit of the raw JSON the write of the scope editor
\* failed and left a cut file, and the retried save wrote the edited document.
C15_Witness ==
    /\ was_op.op = "save" /\ was_op.retry /\ was_op.failure = "none"
    /\ was_disk = was_data
    /\ was_disk # DefaultWasDoc

\* C16 (as stated): the sweep_variable of the saved .eff file, when present,
\* is a setpoint variable of the instrument document of the project, and its
\* measured_variable is one of the measured variables of that document.
\* The selectors are filled when the sweep editor opens; an instrument removed
\* afterwards leaves the name in the saved sweep file.
C16_Named(doc, key, names) ==
    (key \in DOMAIN doc /\ doc[key] # NoneVal) => doc[key].s \in Range(names)

C16_SavedVariablesExist ==
    eff_disk \notin {Unreadable, Truncated} =>
        LET found == ExtractVariableNames(LoadInst(inst_disk))
        IN /\ C16_Named(eff_disk, "sweep_variable", found.setpoint_vars)
           /\ C16_Named(eff_disk, "measured_variable", found.measured_vars)

\* C22 (as stated): every range the sweep editor saves has an integer points
\* value with 2 <= points <= 1000, also when the raw JSON was edited to a
\* value outside that interval.
\* Only the spin box is bounded: save_changes writes the parsed text, which
\* holds the points value of the document, not that of the spin box.
C22_SavedPointsInRange ==
    eff_disk \notin {Unreadable, Truncated} =>
        \A a \in AxisNames :
            LET v == SweepOf(eff_disk, a)
            IN (v.t = "dict" /\ "points" \in DOMAIN v.d) =>
                   /\ v.d.points.kind = "int"
                   /\ v.d.points.v >= SpinMin /\ v.d.points.v <= SpinMax

\* C25 (as stated): accepting the channel dialog of an instance without
\* touching a field hands back the channels the instance had, each with the
\* index it had, and leaves the channel list of the instance as it was.
\* The dialog shows one group per persisted channel and get_channels numbers
\* the groups by their position: a lone channel of index 1 comes back as 0.
C25_UntouchedDialogKeepsChannels ==
    [][ ( /\ inst_steps' # inst_steps
          /\ inst_op'.op = "edit_channels" /\ inst_op'.edit = "none" )
        => LET before == inst_data[inst_op'.row + 1].channels
           IN /\ inst_op'.returned = before
              /\ inst_data'[inst_op'.row + 1].channels = before ]_vars

\* C28: right after add_instrument_to_inst, after remove_selected_instrument
\* on a selected row and after an accepted channel dialog, when the write
\* did not fail, the .inst file holds the instruments the editor has in
\* memory; no Save was pressed.
C28_Handled ==
    \/ inst_op.op \in {"add", "edit_channels"}
    \/ inst_op.op = "remove" /\ inst_op.row >= 0

C28_FileFollowsMemory ==
    (inst_op # Idle /\ C28_Handled /\ inst_op.written) =>
        inst_disk = InstDoc(inst_data)

\* C28 witness: Add appended a new instance B to a document that held A, and
\* the file holds both.
C28_Witness ==
    /\ inst_op # Idle /\ inst_op.op = "add" /\ ~inst_op.replaced /\ inst_op.written
    /\ Len(InstOnDisk) = 2
    /\ InstOnDisk[1] = InstanceA
    /\ InstOnDisk[2].instance_name = <<"B">>
    /\ inst_data = InstOnDisk

\* ======================================================================
\* InstFileDialog.update_channels_widget as a function of the capabilities
\* of the selected model, the class and the channels persisted for the named
\* instance: the labels and the dicts of the items it adds.
\* ======================================================================

MaxModelChannels == 3    \* channels of a model
MaxPersisted == 2        \* channels persisted for the instance

\* ---- the inputs of the exploration ----
\* Channel descriptors of a model: with a label, without one
Descriptors == { [label |-> <<"O", "u", "t">>], [id |-> 1] }

ModelCaps ==
    {[channels |-> JList(items)] :
        items \in UNION {[1..n -> Descriptors] : n \in 0..MaxModelChannels}}
    \cup {[channels |-> CapInt(n)] : n \in 0..MaxModelChannels}
    \cup {[number_of_channels |-> n] : n \in 0..MaxModelChannels}
    \cup {[max_voltage |-> 30]}

\* A channel of the instance in the document: enabled, as
\* add_instrument_to_inst keeps it
PersistedChannels(type_key) ==
    IF type_key = "dataloggers"
    THEN {[Placeholder(type_key, k) EXCEPT !.used = TRUE, !.measured_variable = v] :
             k \in 0..MaxModelChannels, v \in {<<>>, <<"I">>}}
    ELSE {[Placeholder(type_key, k) EXCEPT !.used = TRUE, !.variable = v] :
             k \in 0..MaxModelChannels, v \in {<<>>, <<"V">>}}

\* The channel lists of an instance: enabled channels of pairwise distinct
\* index values
PersistedLists(type_key) ==
    {channels \in UNION {[1..n -> PersistedChannels(type_key)] : n \in 0..MaxPersisted} :
        NoDup([p \in 1..Len(channels) |-> channels[p].index])}

ChanInit ==
    /\ \E caps \in ModelCaps, type_key \in {"power_supplies", "dataloggers", "oscilloscopes"} :
         \E channels \in PersistedLists(type_key) :
             fn_in = [caps |-> caps, type_key |-> type_key, channels |-> channels]
    /\ fn_out = Pending
    /\ GuiIdle

ResolveCall ==
    /\ fn_out = Pending
    /\ fn_out' = [kind |-> "items",
                  items |-> ResolveChannels(fn_in.caps, fn_in.type_key, fn_in.channels)]
    /\ UNCHANGED <<fn_in, guiVars>>

ChanNext == ResolveCall

SpecChan == ChanInit /\ [][ChanNext]_vars

\* C23: the items are exactly channel_count entries of indices
\* 0..channel_count-1 in order, labelled Ch1, Ch2, ... when the model gives a
\* bare integer; the entry of an index is enabled and holds the persisted
\* channel exactly when the instance has a persisted channel of that index,
\* and is the disabled placeholder otherwise.
C23_Persisted(ch_idx) == {p \in 1..Len(fn_in.channels) : fn_in.channels[p].index = ch_idx}

\* channel_count of a model: the length of its descriptor list, or the bare
\* integer it gives as channels or as number_of_channels
C23_Count(caps) ==
    IF "channels" \in DOMAIN caps
    THEN (IF caps.channels.t = "list" THEN Len(caps.channels.items) ELSE caps.channels.v)
    ELSE IF "number_of_channels" \in DOMAIN caps THEN caps.number_of_channels
    ELSE 0

C23_ResolveChannels ==
    fn_out # Pending =>
        /\ Len(fn_out.items) = C23_Count(fn_in.caps)
        /\ \A i \in 1..Len(fn_out.items) :
               /\ fn_out.items[i].data.index = i - 1
               /\ ("channels" \notin DOMAIN fn_in.caps \/ fn_in.caps.channels.t = "int")
                      => \E k \in 0..(Len(fn_out.items[i].label) - Len(ChLabel(i - 1))) :
                             SubSeq(fn_out.items[i].label, k + 1, k + Len(ChLabel(i - 1)))
                                 = ChLabel(i - 1)
               /\ IF C23_Persisted(i - 1) # {}
                  THEN /\ fn_out.items[i].data.used
                       /\ \E p \in C23_Persisted(i - 1) : fn_out.items[i].data = fn_in.channels[p]
                  ELSE fn_out.items[i].data = Placeholder(fn_in.type_key, i - 1)

\* C23 witness: a power supply model that gives its channels as the bare
\* integer 2, and an instance with channel 1 persisted for the variable V:
\* the first entry is the disabled placeholder labelled Ch1, the second is
\* enabled, labelled Ch2, and carries the persisted channel.
C23_Witness ==
    /\ fn_out # Pending
    /\ fn_in.caps = [channels |-> CapInt(2)]
    /\ fn_in.type_key = "power_supplies"
    /\ Len(fn_in.channels) = 1
    /\ fn_in.channels[1].index = 1 /\ fn_in.channels[1].variable = <<"V">>
    /\ fn_out.items[1] =
           [label |-> <<"[", "D", "I", "S", "]", " ", "C", "h", "1", " ", "(", ")">>,
            data |-> Placeholder("power_supplies", 0)]
    /\ fn_out.items[2] =
           [label |-> <<"C", "h", "2", " ", "(", "V", ")">>, data |-> fn_in.channels[1]]

\* ======================================================================
\* WasFileDialog: the two fields, Apply, the raw JSON and Save
\* ======================================================================

\* The texts typed into the time/div field and into the volt/div field
WasTimeTexts == { <<>>, <<"1", "m">>, <<"5">>, <<"b">>, <<"5", "u">> }
WasVoltTexts == { <<>>, <<"0", ",", "5">>, <<"2">>, <<"x">>, <<"1", "e", "3">> }

\* The documents the user types as raw JSON: the default one, numbers, the
\* time/div as a string, no "settings", and a text that is no JSON
WasTypedDocs ==
    { DefaultWasDoc,
      WasDoc([time_per_div |-> Dec(1, -3), volt_per_div |-> Dec(5, -1)]),
      WasDoc([time_per_div |-> StrVal(<<"1", "m">>), volt_per_div |-> Dec(5, -1)]),
      WasDoc([volt_per_div |-> PyInt(2)]),
      [type |-> "oscilloscope_settings"],
      Truncated }

WasIsOpen == was_op.op \notin {"closed", "save"}

\* The user types into one of the two fields
WasUserEdit ==
    /\ WasIsOpen
    /\ \/ \E t \in WasTimeTexts : was_form' = [was_form EXCEPT !.time = t]
       \/ \E t \in WasVoltTexts : was_form' = [was_form EXCEPT !.volt = t]
    /\ was_form' # was_form
    /\ was_op' = [op |-> "edit"]
    /\ UNCHANGED <<was_data, was_disk, was_steps, projVars, effVars, instVars, dlgVars, fnVars>>

\* self.data['settings']['time_per_div'] = tdiv and the same for volt_per_div
WasSettings(settings, tdiv, vdiv) ==
    IF settings = EmptyDict
    THEN [time_per_div |-> tdiv, volt_per_div |-> vdiv]
    ELSE [k \in DOMAIN settings \cup {"time_per_div", "volt_per_div"} |->
             IF k = "time_per_div" THEN tdiv
             ELSE IF k = "volt_per_div" THEN vdiv
             ELSE settings[k]]

WasStored(doc) ==
    /\ was_data' = doc
    /\ was_form' = populate_was_params(was_form, doc)
    /\ was_op' = [op |-> "apply", stored |-> TRUE, raised |-> FALSE]

WasApplied(tdiv, vdiv) ==
    IF Raised(tdiv) \/ Raised(vdiv)
    THEN /\ was_op' = [op |-> "apply", stored |-> FALSE, raised |-> FALSE]
         /\ UNCHANGED <<was_data, was_form>>
    ELSE IF "settings" \notin DOMAIN was_data
    THEN /\ was_op' = [op |-> "apply", stored |-> FALSE, raised |-> TRUE]
         /\ UNCHANGED <<was_data, was_form>>
    ELSE WasStored([was_data EXCEPT !.settings = WasSettings(was_data.settings, tdiv, vdiv)])

\* WasFileDialog.apply_params_to_json: both settings are stored when both
\* texts parse; the new text of the raw JSON then runs
\* sync_params_from_json.  Without "settings" in the document the
\* assignment raises KeyError and nothing is stored.
was_apply_params_to_json ==
    /\ WasIsOpen
    /\ was_steps < MaxLinkSteps
    /\ WasApplied(parse_time(was_form.time),
                  ParseFloat(ReplaceChar(was_form.volt, ",", ".")))
    /\ was_steps' = was_steps + 1
    /\ UNCHANGED <<was_disk, projVars, effVars, instVars, dlgVars, fnVars>>

\* The .was files the editor is opened on: as the main window creates them,
\* as the editor stores them, and one that cannot be read
WasDiskFiles ==
    { DefaultWasDoc,
      WasDoc([time_per_div |-> Dec(1, -3), volt_per_div |-> Dec(5, -1)]),
      Unreadable }

\* The state after WasFileDialog.__init__
WasInit ==
    /\ was_disk \in WasDiskFiles
    /\ was_data = LoadWas(was_disk)
    /\ was_form = populate_was_params(EmptyWasForm, LoadWas(was_disk))
    /\ was_steps = 0
    /\ was_op = [op |-> "open"]
    /\ ProjIdle /\ EffIdle /\ InstIdle /\ FnIdle /\ DlgIdle
WasNext ==
    \/ WasUserEdit
    \/ was_apply_params_to_json
    \/ WasIsOpen /\ WasRawEditTo(WasTypedDocs)
    \/ WasIsOpen /\ was_save_changes

SpecWas == WasInit /\ [][WasNext]_vars

\* C21 (as stated): a .was file the scope editor has saved holds, under
\* settings.time_per_div when the key is there, the number parsed from the
\* engineering-notation text and never a string.
C21_SavedTimeIsNumber ==
    (was_op.op = "save" /\ "settings" \in DOMAIN was_disk) =>
        LET tdiv == Get(was_disk.settings, "time_per_div", Absent)
        IN tdiv # Absent => tdiv.kind = "float"

\* ======================================================================
\* Translator: set_language and t
\* ======================================================================

\* Language codes with a place in lang_dir, and keys looked up
LangCodes == {"en", "it"}
TrKeys == {"save", "error"}

\* json.load of a language file gave an object
TrDict(d) == [kind |-> "dict", d |-> d]
\* ... or JSON that is no object (a list)
TrList == [kind |-> "list"]
\* AttributeError out of t
TrRaised == [kind |-> "raised"]

\* What a <lang>.json of lang_dir holds: no file, text that is no JSON, an
\* object (complete, partial, empty), a JSON list
LangFileContents ==
    { Absent, Truncated, TrList,
      TrDict([k \in {} |-> ""]),
      TrDict([k \in {"save"} |-> "Salva"]),
      TrDict([k \in TrKeys |-> IF k = "save" THEN "Save" ELSE "Error"]) }

\* set_language lines 49-55: the file as json.load returns it, {} when
\* open() or json.load raises
LoadLang(file) ==
    IF file \in {Absent, Truncated} THEN TrDict([k \in {} |-> ""]) ELSE file

\* Translator.t: self.translations.get(key, key)
Translator_t(table, key) ==
    IF table.kind # "dict" THEN TrRaised
    ELSE StrVal(IF key \in DOMAIN table.d THEN table.d[key] ELSE key)

\* The state after Translator.__init__(default_lang = lang)
TrInit ==
    /\ lang_files \in [LangCodes -> LangFileContents]
    /\ \E lang \in LangCodes :
           /\ current_lang = lang
           /\ translations = LoadLang(lang_files[lang])
           /\ tr_op = [op |-> "set_language", lang |-> lang]
    /\ ProjIdle /\ EffIdle /\ InstIdle /\ WasIdle /\ SetIdle /\ FnIdle

\* Translator.set_language
set_language ==
    /\ \E lang \in LangCodes :
           /\ translations' = LoadLang(lang_files[lang])
           /\ current_lang' = lang
           /\ tr_op' = [op |-> "set_language", lang |-> lang]
    /\ UNCHANGED <<lang_files, setVars, projVars, effVars, instVars, wasVars, fnVars>>

\* A call of Translator.t
Translate ==
    /\ \E key \in TrKeys :
           tr_op' = [op |-> "t", key |-> key, result |-> Translator_t(translations, key)]
    /\ UNCHANGED <<lang_files, translations, current_lang, setVars,
                   projVars, effVars, instVars, wasVars, fnVars>>

TrNext == set_language \/ Translate

SpecTr == TrInit /\ [][TrNext]_vars

\* C24 (as stated): a lookup returns the translation of the key in the file
\* of the current language when the file has one, and the key itself
\* otherwise; with a missing or unparseable file every key translates to
\* itself; no lookup raises.
C24_TranslationOrKey ==
    tr_op.op = "t" =>
        LET file == lang_files[current_lang]
        IN tr_op.result =
               IF file \notin {Absent, Truncated, TrList} /\ tr_op.key \in DOMAIN file.d
               THEN StrVal(file.d[tr_op.key])
               ELSE StrVal(tr_op.key)

\* ======================================================================
\* SettingsDialog: theme, language and advanced naming, with the store
\* and the main window the handlers act on
\* ======================================================================

\* Qt.Checked and Qt.Unchecked
QtChecked == 2
QtUnchecked == 0

NamingKinds == {"inst", "eff", "was"}

\* Translator(default_lang='en')
DefaultLang == "en"

\* The argument of stateChanged for a two-state checkbox
CheckState(checked) == IF checked THEN QtChecked ELSE QtUnchecked

\* A Python bool compared with an int: True is 1, False is 0
BoolAsInt(b) == IF b THEN 1 ELSE 0

\* load_languages: the *.json files of lang_dir, the items of lang_combo
AvailableLangs(files) == {lang \in DOMAIN files : files[lang] # Absent}

\* setEnabled(enabled) on the three toggles
SetEnabled(toggles, enabled) ==
    [k \in NamingKinds |-> [toggles[k] EXCEPT !.enabled = enabled]]

\* The store, the translator, the main window and the widgets of the
\* dialog, as the handlers find them
SettingsState ==
    [store |-> qsettings, files |-> lang_files, translations |-> translations,
     current_lang |-> current_lang, tr_op |-> tr_op, style_sheet |-> style_sheet,
     naming_settings |-> naming_settings, lang_combo |-> lang_combo,
     dark |-> dark_theme_switch, adv |-> adv_naming_checkbox, toggles |-> naming_toggles]

\* Translator.set_language(lang)
WithLanguage(g, lang) ==
    [g EXCEPT !.translations = LoadLang(g.files[lang]),
              !.current_lang = lang,
              !.tr_op = [op |-> "set_language", lang |-> lang]]

\* SettingsDialog.save_settings: the six values of the store
save_settings(g) ==
    [g EXCEPT !.store = [language |-> g.current_lang, dark_theme |-> g.dark,
                         advanced_naming |-> g.adv, inst |-> g.toggles.inst.checked,
                         eff |-> g.toggles.eff.checked, was |-> g.toggles.was.checked]]

\* MainWindow.set_dark_theme: the style sheet, and dark_theme of the store
set_dark_theme(g) == [g EXCEPT !.style_sheet = "dark", !.store.dark_theme = TRUE]

\* SettingsDialog.toggle_dark_theme(state)
toggle_dark_theme(g, state) ==
    save_settings(IF state = QtChecked THEN set_dark_theme(g)
                  ELSE [g EXCEPT !.style_sheet = ""])

\* SettingsDialog.toggle_advanced_naming(state): enabled = state == Qt.Checked
toggle_advanced_naming(g, state) ==
    save_settings([g EXCEPT !.toggles = SetEnabled(@, state = QtChecked)])

\* SettingsDialog.change_language(lang); close() is left to the caller
change_language(g, lang) == save_settings(WithLanguage(g, lang))

\* lang_combo.setCurrentText(lang): currentTextChanged runs change_language
\* when another item becomes current
LangComboSet(g, lang) ==
    IF lang \in AvailableLangs(g.files) /\ lang # g.lang_combo
    THEN change_language([g EXCEPT !.lang_combo = lang], lang)
    ELSE g

\* dark_theme_switch.setChecked(dark): stateChanged runs toggle_dark_theme
\* when the state changes
DarkSwitchSet(g, dark) ==
    IF dark # g.dark THEN toggle_dark_theme([g EXCEPT !.dark = dark], CheckState(dark))
    ELSE g

\* adv_naming_checkbox.setChecked(adv_naming): stateChanged runs
\* toggle_advanced_naming when the state changes
AdvCheckboxSet(g, adv_naming) ==
    IF adv_naming # g.adv
    THEN toggle_advanced_naming([g EXCEPT !.adv = adv_naming], CheckState(adv_naming))
    ELSE g

\* setChecked on the three toggles
TogglesSet(g, store) ==
    [g EXCEPT !.toggles = [k \in NamingKinds |-> [@[k] EXCEPT !.checked = store[k]]]]

\* SettingsDialog.load_settings: the six values are read first, then the
\* widgets are set one after the other, then
\* toggle_advanced_naming(adv_naming) with the bool read from the store
LoadedFrom(g, store) ==
    toggle_advanced_naming(
        TogglesSet(AdvCheckboxSet(DarkSwitchSet(LangComboSet(g, store.language),
                                                store.dark_theme),
                                  store.advanced_naming),
                   store),
        BoolAsInt(store.advanced_naming))

load_settings(g) == LoadedFrom(g, g.store)

\* MainWindow.load_settings on the values read from the store
MainLoadedFrom(g, store) ==
    LET themed == IF store.dark_theme THEN set_dark_theme(g) ELSE g
    IN [themed EXCEPT !.naming_settings =
                          [advanced_naming |-> store.advanced_naming, inst |-> store.inst,
                           eff |-> store.eff, was |-> store.was]]

\* MainWindow.load_settings: set_language, the theme, naming_settings
MainLoadSettings(g) == MainLoadedFrom(WithLanguage(g, g.store.language), g.store)

\* The widgets as SettingsDialog.__init__ creates them, before load_settings:
\* lang_combo holds the available languages, the current one is that of the
\* translator when it is among them and the first item otherwise (with the
\* two LangCodes there is one other item at most)
NewToggles == [k \in NamingKinds |-> [checked |-> FALSE, enabled |-> TRUE]]

NewCombo(files, lang) ==
    IF lang \in AvailableLangs(files) THEN lang
    ELSE IF AvailableLangs(files) = {} THEN ""
    ELSE CHOOSE first \in AvailableLangs(files) : TRUE

\* Translator.__init__ and the main window before its dialog is made
NewWindow(store, files) ==
    WithLanguage([store |-> store, files |-> files, translations |-> Idle,
                  current_lang |-> DefaultLang, tr_op |-> Idle, style_sheet |-> "",
                  naming_settings |-> Idle, lang_combo |-> NewCombo(files, DefaultLang),
                  dark |-> FALSE, adv |-> FALSE, toggles |-> NewToggles],
                 DefaultLang)

\* SettingsDialog.__init__: load_settings, then
\* toggle_advanced_naming(self.adv_naming_checkbox.isChecked())
SettingsDialogInit(g) ==
    LET loaded == load_settings(g)
    IN toggle_advanced_naming(loaded, BoolAsInt(loaded.adv))

\* MainWindow.__init__ lines 258-259: the dialog, then load_settings
MainWindowInit(store, files) == MainLoadSettings(SettingsDialogInit(NewWindow(store, files)))

\* The languages of lang_dir when the application starts
SetLangDirs ==
    LET en == TrDict([k \in TrKeys |-> IF k = "save" THEN "Save" ELSE "Error"])
        it == TrDict([k \in {"save"} |-> "Salva"])
    IN { [lang \in LangCodes |-> IF lang = "en" THEN en ELSE it],
         [lang \in LangCodes |-> IF lang = "en" THEN en ELSE Absent],
         [lang \in LangCodes |-> IF lang = "en" THEN Absent ELSE it] }

\* The store an earlier session left
SetStores ==
    [language : LangCodes, dark_theme : BOOLEAN, advanced_naming : BOOLEAN,
     inst : BOOLEAN, eff : BOOLEAN, was : BOOLEAN]

\* The state g of the store, the translator, the window and the widgets
InState(g) ==
    /\ qsettings = g.store
    /\ translations = g.translations
    /\ current_lang = g.current_lang
    /\ tr_op = g.tr_op
    /\ style_sheet = g.style_sheet
    /\ naming_settings = g.naming_settings
    /\ lang_combo = g.lang_combo
    /\ dark_theme_switch = g.dark
    /\ adv_naming_checkbox = g.adv
    /\ naming_toggles = g.toggles

SetInit ==
    /\ lang_files \in SetLangDirs
    /\ \E store \in SetStores : InState(MainWindowInit(store, lang_files))
    /\ settings_op = [op |-> "init"]
    /\ ProjIdle /\ EffIdle /\ InstIdle /\ WasIdle /\ FnIdle

\* The handler leaves the state g
Becomes(g) ==
    /\ qsettings' = g.store
    /\ translations' = g.translations
    /\ current_lang' = g.current_lang
    /\ tr_op' = g.tr_op
    /\ style_sheet' = g.style_sheet
    /\ naming_settings' = g.naming_settings
    /\ lang_combo' = g.lang_combo
    /\ dark_theme_switch' = g.dark
    /\ adv_naming_checkbox' = g.adv
    /\ naming_toggles' = g.toggles
    /\ UNCHANGED <<lang_files, projVars, effVars, instVars, wasVars, fnVars>>

\* The dialog is on the screen: open_settings shows it, apply_settings and
\* change_language close it
SettingsShown == settings_op.op \notin {"init", "apply", "change_language"}

\* MainWindow.open_settings: load_settings on the one dialog, then show()
open_settings ==
    /\ Becomes(load_settings(SettingsState))
    /\ settings_op' = [op |-> "load_settings"]

\* The user clicks the dark theme switch: stateChanged runs toggle_dark_theme
ClickDarkTheme ==
    /\ SettingsShown
    /\ Becomes(DarkSwitchSet(SettingsState, ~dark_theme_switch))
    /\ settings_op' = [op |-> "toggle_dark_theme"]

\* The user picks another language: currentTextChanged runs change_language,
\* which closes the dialog
PickLanguage ==
    /\ SettingsShown
    /\ \E lang \in AvailableLangs(lang_files) \ {lang_combo} :
           Becomes(LangComboSet(SettingsState, lang))
    /\ settings_op' = [op |-> "change_language"]

\* The user clicks the advanced-naming checkbox: stateChanged runs
\* toggle_advanced_naming, which ends with save_settings
ClickAdvancedNaming ==
    /\ SettingsShown
    /\ Becomes(AdvCheckboxSet(SettingsState, ~adv_naming_checkbox))
    /\ settings_op' = [op |-> "toggle"]

\* The user clicks one of the three toggles; a disabled one takes no click
ClickToggle ==
    /\ SettingsShown
    /\ \E k \in NamingKinds :
           /\ naming_toggles[k].enabled
           /\ naming_toggles' = [naming_toggles EXCEPT ![k].checked = ~@]
    /\ settings_op' = [op |-> "click"]
    /\ UNCHANGED <<qsettings, lang_combo, dark_theme_switch, adv_naming_checkbox,
                   style_sheet, naming_settings,
                   trVars, projVars, effVars, instVars, wasVars, fnVars>>

\* SettingsDialog.apply_settings: save_settings, load_settings of the main
\* window, update_translations and close
apply_settings ==
    /\ SettingsShown
    /\ Becomes(MainLoadSettings(save_settings(SettingsState)))
    /\ settings_op' = [op |-> "apply"]

SetNext ==
    \/ open_settings \/ ClickDarkTheme \/ PickLanguage \/ ClickAdvancedNaming
    \/ ClickToggle \/ apply_settings

SpecSet == SetInit /\ [][SetNext]_vars

\* C30 (as stated): in every state of the settings dialog (after
\* construction, after load_settings, after a click on the advanced-naming
\* checkbox) each of the three toggles is enabled exactly when the
\* advanced-naming checkbox is checked.
C30_TogglesFollowCheckbox ==
    \A k \in NamingKinds : naming_toggles[k].enabled = adv_naming_checkbox

\* ======================================================================
\* The project sidecar: directories that hold project files made earlier
\* ======================================================================

\* A project as an earlier session left it in its sidecar
StoredProject(project_id, name, eff_files) ==
    [ProjectData(project_id, 1, name, FileName(name, 0, ".inst"))
        EXCEPT !.eff_files = eff_files]

\* The *.json files of the directory: the sidecar under the name
\* create_new_project gave it; renamed by the user; with a copy next to it;
\* with an older copy next to it; two projects side by side
SidecarDirs ==
    LET P == StoredProject(1, <<"p">>, <<FileName(<<"a">>, 0, ".eff")>>)
        Older == StoredProject(1, <<"p">>, <<>>)
        Q == StoredProject(2, <<"q">>, <<>>)
    IN { [n \in SidecarNames |-> IF n = <<"p">> THEN P ELSE Absent],
         [n \in SidecarNames |-> IF n = <<"q">> THEN P ELSE Absent],
         [n \in SidecarNames |-> P],
         [n \in SidecarNames |-> IF n = <<"p">> THEN P ELSE Older],
         [n \in SidecarNames |-> IF n = <<"p">> THEN P ELSE Q] }

SidecarInit ==
    /\ current_project_dir = NoDir
    /\ current_project_data = NoProject
    /\ dir_json \in SidecarDirs
    /\ dir_files = [n \in FileNames |->
                       IF n = FileName(<<"p">>, 0, ".inst") THEN "inst_empty"
                       ELSE IF n = FileName(<<"a">>, 0, ".eff") THEN "eff_default"
                       ELSE IF n = FileName(<<"a">>, 0, ".was") THEN "user"
                       ELSE "none"]
    /\ next_id = 3
    /\ proj_steps = 0
    /\ last_op = Report("init", "ok", NoFile, FALSE, "none")
    /\ last_project_path = NoPath
    /\ EffIdle /\ InstIdle /\ WasIdle /\ DlgIdle /\ FnIdle

SidecarNext ==
    \/ restart_application
    \/ open_project
    \/ add_project_file
    \/ add_existing_file

SpecSidecar == SidecarInit /\ [][SidecarNext]_vars

\* C27 (as stated): when attachGenerated or attachExisting has succeeded, the
\* sidecar the project was opened from holds the project as it is in
\* memory, whatever the name of that sidecar and whatever other *.json
\* files of the directory hold the same project_id.
C27_SidecarFollowsMemory ==
    [][ ( /\ proj_steps' # proj_steps
          /\ last_op'.op \in {"attachGenerated", "attachExisting"}
          /\ last_op'.result = "ok" )
        => /\ last_project_path'.dir = "project_dir"
           /\ dir_json'[last_project_path'.name] = current_project_data' ]_vars

\* ======================================================================
\* EffFileDialog.get_inst_file_variables on the folder of the sweep file
\* ======================================================================

\* The *.json files and the .inst files of the folder, and the sweep file
\* the editor is opened on
JsonNames == {"a.json", "b.json"}
InstNames == {"x.inst", "y.inst"}
SweepFile == "s.eff"

\* A project sidecar, as far as the function and the claim read it
Sidecar(inst_file, eff_files) == [inst_file |-> inst_file, eff_files |-> eff_files]

\* What a *.json file of the folder holds: no such file, text that is no
\* JSON, an object without inst_file, an object that is no project but has
\* the key, a project that lists the sweep file, a project that does not
JsonContents ==
    { Absent, Truncated, [app_name |-> "Lab"], [inst_file |-> "y.inst"] }
    \cup {Sidecar(i, e) : i \in InstNames, e \in {<<>>, <<SweepFile>>}}

\* What an .inst file of the folder holds
InstContents ==
    { Absent, [instruments |-> <<InstanceA>>], [instruments |-> <<InstanceB>>] }

\* The orders os.listdir may give the *.json files in
ListdirOrders == { <<"a.json", "b.json">>, <<"b.json", "a.json">> }

\* Lines 833-868: the variables of the instrument file, two empty lists
\* when the file is missing or cannot be read
InstFileVariables(dir, inst_file) ==
    IF dir.inst[inst_file] \in {Absent, Truncated}
    THEN [setpoint_vars |-> <<>>, measured_vars |-> <<>>]
    ELSE ExtractVariableNames(dir.inst[inst_file])

\* EffFileDialog.get_inst_file_variables: the first *.json of the listing
\* that parses and has the key inst_file names the instrument file
get_inst_file_variables(dir, listing) ==
    LET hits == {i \in 1..Len(listing) : "inst_file" \in DOMAIN dir.json[listing[i]]}
    IN IF hits = {} THEN [setpoint_vars |-> <<>>, measured_vars |-> <<>>]
       ELSE LET first == CHOOSE i \in hits : \A j \in hits : i <= j
            IN InstFileVariables(dir, dir.json[listing[first]].inst_file)

DirInit ==
    /\ \E json \in [JsonNames -> JsonContents], inst \in [InstNames -> InstContents] :
           fn_in = [json |-> json, inst |-> inst]
    /\ fn_out = Pending
    /\ GuiIdle

\* The constructor of the sweep editor asks for the variables; the order of
\* os.listdir is not determined
VariablesCall ==
    /\ fn_out = Pending
    /\ \E listing \in ListdirOrders :
           fn_out' = [kind |-> "found", found |-> get_inst_file_variables(fn_in, listing)]
    /\ UNCHANGED <<fn_in, guiVars>>

DirNext == VariablesCall

SpecDir == DirInit /\ [][DirNext]_vars

\* C29 (as stated): when a project of the folder lists the sweep file, the
\* variables offered are those of the inst_file of such a project, whatever
\* other *.json files the folder holds.
C29_Owners ==
    {n \in JsonNames : /\ "eff_files" \in DOMAIN fn_in.json[n]
                       /\ SweepFile \in Range(fn_in.json[n].eff_files)}

C29_VariablesOfOwningProject ==
    (fn_out # Pending /\ C29_Owners # {}) =>
        \E n \in C29_Owners :
            fn_out.found = InstFileVariables(fn_in, fn_in.json[n].inst_file)

====
